---------------------------- MODULE Spec2Model ----------------------------
(***************************************************************************)
(* ERPNext MCP server: the business-parameter mapping and validation       *)
(* layer, the ERPNextClient wrapper around the Frappe transport, and the   *)
(* tool boundary of the server.                                            *)
(*                                                                         *)
(* Python values are modelled as follows.  A dict is a function from key   *)
(* strings to values; the order in which a dict literal or a loop visits   *)
(* its keys is kept where the code depends on it, by giving the dict as a  *)
(* sequence of <<key, value>> pairs.  Opaque caller values (strings,       *)
(* numbers, lists, nested mappings) are atoms: the code never looks inside *)
(* them.  A text (exception message, envelope message) is a sequence of    *)
(* tokens, so that formatting, joining and substring search are computed.  *)
(***************************************************************************)
EXTENDS Integers, Sequences, FiniteSets, TLC

VARIABLES
    params,      \* mapping layer: the BusinessRecord, in the caller's key order
    doctype,     \* mapping layer: the DocumentType argument
    data,        \* mapping layer: the record handed to the Validator
    missing,     \* mapping layer: the Validator's result
    step,        \* mapping layer: which function was applied last
    call,        \* client: the ERPNextClient method invoked last, with its arguments
    transport,   \* client: what the transport answered to that invocation's calls
    requests,    \* client: the transport calls that invocation made, in order
    outcome,     \* client: what that invocation returned or raised
    initialized, \* server: initialize_client has assigned the globals
    tool,        \* server: the tool called last ("none" before any call)
    args,        \* server: the arguments of that call
    calls,       \* server: the Remote Client primitives that call invoked
    fault,       \* server: what the tool's body returned or raised
    response,    \* server: what the tool returned to its caller
    stored,      \* remote: the document the ERPNext site holds
    threads,     \* host: each concurrent update_document call, where it stands
    operation,   \* mapping layer: the name given to get_doctype_for_operation
    lookup,      \* mapping layer: what get_doctype_for_operation returned or raised
    config,      \* config.py: the global config instance, read from the environment
    client       \* server: the fields of the global client (None until built)

mapVars == <<params, doctype, data, missing, step>>

clientVars == <<call, transport, requests, outcome>>

serverVars == <<initialized, tool, args, calls, fault, response>>

hostVars == <<stored, threads>>

utilVars == <<operation, lookup>>

bootVars == <<config, client>>

vars == <<params, doctype, data, missing, step, call, transport, requests, outcome,
          initialized, tool, args, calls, fault, response, stored, threads,
          operation, lookup, config, client>>

-----------------------------------------------------------------------------
(* Bounds of the model *)

\* longest BusinessRecord drawn as an input of the mapping layer
MaxParams == 3

\* longest exception text of the transport, in words
MaxWords == 2

\* transport answers scripted for one tool invocation
MaxCalls == 2

\* longest BusinessRecord drawn among those holding empty values
MaxSentinelParams == 2

-----------------------------------------------------------------------------
(* Python None and the caller values of the model *)

PyNone == "None"

\* a string, and a list holding a nested mapping
Values == {PyNone, "ABC Corp", "[{'item_code': 'X', 'qty': 1}]"}

\* the empty string and the empty list
EmptyValues == {"", "[]"}

-----------------------------------------------------------------------------
(* utils/doctype_mapping.py *)

\* class DocTypes(str, Enum): a member is equal to, and hashes as, its string
\* value
DocTypes ==
    [ SALES_INVOICE |-> "Sales Invoice",
      PURCHASE_INVOICE |-> "Purchase Invoice",
      PAYMENT_ENTRY |-> "Payment Entry",
      JOURNAL_ENTRY |-> "Journal Entry", ACCOUNT |-> "Account",
      COST_CENTER |-> "Cost Center", BUDGET |-> "Budget",
      FISCAL_YEAR |-> "Fiscal Year", SALES_ORDER |-> "Sales Order",
      QUOTATION |-> "Quotation", CUSTOMER |-> "Customer",
      DELIVERY_NOTE |-> "Delivery Note",
      PURCHASE_ORDER |-> "Purchase Order",
      SUPPLIER_QUOTATION |-> "Supplier Quotation",
      SUPPLIER |-> "Supplier", PURCHASE_RECEIPT |-> "Purchase Receipt",
      ITEM |-> "Item", STOCK_ENTRY |-> "Stock Entry",
      WAREHOUSE |-> "Warehouse", ITEM_GROUP |-> "Item Group",
      STOCK_LEDGER_ENTRY |-> "Stock Ledger Entry",
      ITEM_PRICE |-> "Item Price", PRICE_LIST |-> "Price List",
      BATCH |-> "Batch", SERIAL_NO |-> "Serial No",
      EMPLOYEE |-> "Employee", ATTENDANCE |-> "Attendance",
      LEAVE_APPLICATION |-> "Leave Application",
      SALARY_SLIP |-> "Salary Slip",
      SALARY_STRUCTURE |-> "Salary Structure",
      JOB_APPLICANT |-> "Job Applicant", PROJECT |-> "Project",
      TASK |-> "Task", TIMESHEET |-> "Timesheet", BOM |-> "BOM",
      WORK_ORDER |-> "Work Order", PRODUCTION_PLAN |-> "Production Plan",
      JOB_CARD |-> "Job Card",
      QUALITY_INSPECTION |-> "Quality Inspection", LEAD |-> "Lead",
      OPPORTUNITY |-> "Opportunity", CAMPAIGN |-> "Campaign",
      ASSET |-> "Asset", ASSET_CATEGORY |-> "Asset Category",
      ASSET_MAINTENANCE |-> "Asset Maintenance",
      ASSET_MOVEMENT |-> "Asset Movement", ISSUE |-> "Issue",
      SERVICE_LEVEL_AGREEMENT |-> "Service Level Agreement",
      WARRANTY_CLAIM |-> "Warranty Claim", WORKFLOW |-> "Workflow",
      PRINT_FORMAT |-> "Print Format", CUSTOM_FIELD |-> "Custom Field",
      NOTIFICATION |-> "Notification" ]

FIELD_MAPPINGS ==
    [ id |-> "name", title |-> "title", description |-> "description",
      date |-> "posting_date", due_date |-> "due_date", status |-> "status",
      customer_name |-> "customer_name", customer_email |-> "email_id",
      customer_phone |-> "mobile_no", supplier_name |-> "supplier_name",
      supplier_email |-> "email_id", supplier_phone |-> "mobile_no",
      invoice_number |-> "name", invoice_date |-> "posting_date",
      grand_total |-> "grand_total", net_total |-> "net_total",
      tax_amount |-> "total_taxes_and_charges",
      item_code |-> "item_code", item_name |-> "item_name",
      item_group |-> "item_group", unit_price |-> "standard_rate",
      quantity |-> "qty", amount |-> "amount",
      project_name |-> "project_name", project_description |-> "description",
      start_date |-> "project_start_date", end_date |-> "project_end_date",
      employee_name |-> "employee_name", employee_number |-> "employee",
      department |-> "department", designation |-> "designation",
      join_date |-> "date_of_joining" ]

\* a Mapper that never consults the table
TargetKey_Verbatim(business_param) == business_param

\* a table in which the target posting_date is itself a source, of date
TargetKey_Chained(business_param) ==
    IF business_param = "posting_date" THEN "date"
    ELSE IF business_param \in DOMAIN FIELD_MAPPINGS
    THEN FIELD_MAPPINGS[business_param]
    ELSE business_param

\* the key under which the Mapper stores the value of business_param
TargetKey(business_param) ==
    IF business_param \in DOMAIN FIELD_MAPPINGS
    THEN FIELD_MAPPINGS[business_param]
    ELSE business_param

\* the loop of map_business_params_to_doctype_fields: mapped[target] = value,
\* one assignment per item of params, in params.items() order
RECURSIVE MapItems(_, _)
MapItems(items, mapped) ==
    IF items = <<>> THEN mapped
    ELSE MapItems(Tail(items),
                  (TargetKey(Head(items)[1]) :> Head(items)[2]) @@ mapped)

\* a Mapper that sets doctype before the loop, so a caller's doctype key wins
map_business_params_DoctypeFirst(items, dt) ==
    MapItems(items, <<>>) @@ ("doctype" :> dt)

map_business_params_to_doctype_fields(items, dt) ==
    ("doctype" :> dt) @@ MapItems(items, <<>>)

\* the keys of the dict the loop builds, in the order a dict keeps them: each
\* key where it was first assigned
RECURSIVE KeyOrder(_, _)
KeyOrder(items, acc) ==
    IF items = <<>> THEN acc
    ELSE LET target == TargetKey(Head(items)[1])
         IN  KeyOrder(Tail(items),
                      IF \E i \in DOMAIN acc : acc[i] = target THEN acc
                      ELSE Append(acc, target))

\* mapped.items() of the dict the Mapper returned for items: the loop's keys,
\* then doctype unless the loop had assigned it already
DictItems(items, mapped) ==
    LET order == KeyOrder(items \o << <<"doctype", PyNone>> >>, <<>>)
    IN  [i \in DOMAIN order |-> <<order[i], mapped[order[i]]>>]

required_fields ==
    (DocTypes.CUSTOMER :> <<"customer_name", "customer_type">>) @@
    (DocTypes.SUPPLIER :> <<"supplier_name", "supplier_type">>) @@
    (DocTypes.ITEM :> <<"item_code", "item_name", "item_group">>) @@
    (DocTypes.SALES_INVOICE :> <<"customer", "posting_date", "items">>) @@
    (DocTypes.PURCHASE_INVOICE :> <<"supplier", "posting_date", "items">>) @@
    (DocTypes.SALES_ORDER :> <<"customer", "delivery_date", "items">>) @@
    (DocTypes.PURCHASE_ORDER :> <<"supplier", "schedule_date", "items">>) @@
    (DocTypes.PAYMENT_ENTRY :> <<"payment_type", "party_type", "party", "paid_amount">>) @@
    (DocTypes.EMPLOYEE :> <<"employee_name", "date_of_joining">>) @@
    (DocTypes.PROJECT :> <<"project_name">>) @@
    (DocTypes.TASK :> <<"subject">>)

get_required_fields(dt) ==
    IF dt \in DOMAIN required_fields THEN required_fields[dt] ELSE <<>>

\* a Validator that only tests key presence
FieldMissing_PresenceOnly(record, field) == field \notin DOMAIN record

\* the test of the Validator's loop body
FieldMissing(record, field) ==
    field \notin DOMAIN record \/ record[field] = PyNone

\* the loop of validate_required_fields: missing.append(field), in the order
\* of the required list
RECURSIVE ValidateLoop(_, _, _)
ValidateLoop(record, required, acc) ==
    IF required = <<>> THEN acc
    ELSE ValidateLoop(record, Tail(required),
                      IF FieldMissing(record, Head(required))
                      THEN Append(acc, Head(required))
                      ELSE acc)

validate_required_fields(record, dt) ==
    ValidateLoop(record, get_required_fields(dt), <<>>)

\* dict(items): the mapping a sequence of distinct-key items denotes
AsDict(items) == [k \in {items[i][1] : i \in DOMAIN items} |->
                    items[CHOOSE i \in DOMAIN items : items[i][1] = k][2]]

-----------------------------------------------------------------------------
(* Texts, exceptions and call results *)

\* words an exception text of the transport is made of: the eight substrings
\* handle_frappe_errors looks for, some capitalised, and one it ignores
Vocabulary == {"login", "Authentication", "INVALID", "validation", "not found",
               "does not exist", "permission", "Not Allowed", "timeout"}

\* str.lower(), word by word
LowerWord(w) ==
    CASE w = "Authentication" -> "authentication"
      [] w = "INVALID" -> "invalid"
      [] w = "Not Allowed" -> "not allowed"
      [] w = "Balance Sheet" -> "balance sheet"
      [] w = "INCOME_STATEMENT" -> "income_statement"
      [] w = "Profit and Loss" -> "profit and loss"
      [] w = "Budget" -> "budget"
      [] w = "Sales" -> "sales"
      [] OTHER -> w

Lower(text) == [i \in DOMAIN text |-> LowerWord(text[i])]

\* Python's `needle in text`
Contains(text, needle) == \E i \in DOMAIN text : text[i] = needle

\* an optional dict argument: None, or a dict
NoneArg == [is_none |-> TRUE, d |-> <<>>]
DictArg(d) == [is_none |-> FALSE, d |-> d]

EmptyDict == <<>>

Return(v) == [tag |-> "return", value |-> v]
Raise(e) == [tag |-> "raise", exc |-> e]

\* an exception of a class outside the ERPNextError family; str(e) is text
PyException(cls, text) == [cls |-> cls, message |-> text]

-----------------------------------------------------------------------------
(* utils/error_handling.py *)

ERPNextError(message) ==
    [cls |-> "ERPNextError", message |-> message,
     error_code |-> "ERPNEXT_ERROR", details |-> EmptyDict]

AuthenticationError(message) ==
    [cls |-> "AuthenticationError", message |-> message,
     error_code |-> "AUTHENTICATION_ERROR", details |-> EmptyDict]

ValidationError(message) ==
    [cls |-> "ValidationError", message |-> message,
     error_code |-> "VALIDATION_ERROR", details |-> EmptyDict]

NotFoundError(message) ==
    [cls |-> "NotFoundError", message |-> message,
     error_code |-> "NOT_FOUND_ERROR", details |-> EmptyDict]

PermissionError(message) ==
    [cls |-> "PermissionError", message |-> message,
     error_code |-> "PERMISSION_ERROR", details |-> EmptyDict]

\* the classes `except ERPNextError` catches
ERPNextErrorClasses == {"ERPNextError", "AuthenticationError", "ValidationError",
                        "NotFoundError", "PermissionError"}

\* a decorator that tests the permission rule before the not-found rule
ConvertError_PermissionFirst(e) ==
    LET error_message == Lower(e.message) IN
    IF Contains(error_message, "authentication") \/ Contains(error_message, "login")
    THEN AuthenticationError(<<"Authentication failed: ">> \o e.message)
    ELSE IF Contains(error_message, "validation") \/ Contains(error_message, "invalid")
    THEN ValidationError(<<"Validation error: ">> \o e.message)
    ELSE IF Contains(error_message, "permission") \/ Contains(error_message, "not allowed")
    THEN PermissionError(<<"Permission denied: ">> \o e.message)
    ELSE IF Contains(error_message, "not found") \/ Contains(error_message, "does not exist")
    THEN NotFoundError(<<"Resource not found: ">> \o e.message)
    ELSE ERPNextError(<<"ERPNext operation failed: ">> \o e.message)

\* the except branch of handle_frappe_errors.wrapper
ConvertError(e) ==
    LET error_message == Lower(e.message) IN
    IF Contains(error_message, "authentication") \/ Contains(error_message, "login")
    THEN AuthenticationError(<<"Authentication failed: ">> \o e.message)
    ELSE IF Contains(error_message, "validation") \/ Contains(error_message, "invalid")
    THEN ValidationError(<<"Validation error: ">> \o e.message)
    ELSE IF Contains(error_message, "not found") \/ Contains(error_message, "does not exist")
    THEN NotFoundError(<<"Resource not found: ">> \o e.message)
    ELSE IF Contains(error_message, "permission") \/ Contains(error_message, "not allowed")
    THEN PermissionError(<<"Permission denied: ">> \o e.message)
    ELSE ERPNextError(<<"ERPNext operation failed: ">> \o e.message)

\* handle_frappe_errors.wrapper, applied to what the wrapped function did
handle_frappe_errors(result) ==
    IF result.tag = "return" THEN result ELSE Raise(ConvertError(result.exc))

\* an error response that leaves details out when the error carried none
format_error_response_NoDetails(error) ==
    IF error.details = EmptyDict
    THEN [success |-> FALSE, error_code |-> error.error_code,
          message |-> error.message]
    ELSE [success |-> FALSE, error_code |-> error.error_code,
          message |-> error.message, details |-> error.details]

format_error_response(error) ==
    [success |-> FALSE, error_code |-> error.error_code,
     message |-> error.message, details |-> error.details]

format_success_response(value, message) ==
    [success |-> TRUE, message |-> message, data |-> value]

-----------------------------------------------------------------------------
(* config.py *)

\* the settings read from the environment; only verify_ssl is followed
ERPNextConfig(flag) == [verify_ssl |-> flag]

-----------------------------------------------------------------------------
(* client/frappe_client.py: ERPNextClient over the Frappe transport *)

\* ERPNextClient.__init__: self.verify_ssl = verify_ssl if verify_ssl is not
\* None else config.verify_ssl
ERPNextClient_init(verify_ssl) ==
    [verify_ssl |-> IF ~verify_ssl.is_none THEN verify_ssl.d ELSE config.verify_ssl]

\* ERPNextClient(): the parameter is declared verify_ssl: bool = True, so a
\* call that leaves the argument out binds it to True
ERPNextClient_new == ERPNextClient_init(DictArg(TRUE))

\* what one call of the transport (self.client.<method>) does: it returns a
\* value or raises an exception with a text
TransportCall(reply) ==
    IF reply.ok THEN Return(reply.value)
    ELSE Raise(PyException("Exception", reply.text))

\* the reply to the k-th transport call of an invocation
ReplyAt(replies, k) ==
    IF k \in DOMAIN replies THEN replies[k]
    ELSE [ok |-> FALSE, text |-> <<"timeout">>]

\* the outcome of an invocation: what it returned or raised, and the
\* transport calls it made, in order
Ran(result, wire) == [result |-> result, wire |-> wire]

\* a primitive that makes one transport call and returns its value
OneCall(request, replies) ==
    Ran(handle_frappe_errors(TransportCall(ReplyAt(replies, 1))), <<request>>)

create_document(dt, record, replies) ==
    OneCall([method |-> "insert", target |-> dt, payload |-> record], replies)

get_document(dt, name, replies) ==
    OneCall([method |-> "get_doc", target |-> dt, name |-> name], replies)

\* a merge in which the stored document's values win over the caller's
DictUpdate_ExistingWins(existing, record) == existing @@ record

\* existing.update(data): data's keys are set, the others kept
DictUpdate(existing, record) == record @@ existing

update_document(dt, name, record, replies) ==
    LET fetched == TransportCall(ReplyAt(replies, 1))
        get_doc == [method |-> "get_doc", target |-> dt, name |-> name]
    IN  IF fetched.tag = "raise"
        THEN Ran(handle_frappe_errors(fetched), <<get_doc>>)
        ELSE Ran(handle_frappe_errors(TransportCall(ReplyAt(replies, 2))),
                 <<get_doc,
                   [method |-> "update",
                    payload |-> DictUpdate(fetched.value, record)]>>)

delete_document(dt, name, replies) ==
    LET deleted == TransportCall(ReplyAt(replies, 1))
        request == [method |-> "delete", target |-> dt, name |-> name]
    IN  IF deleted.tag = "raise"
        THEN Ran(handle_frappe_errors(deleted), <<request>>)
        ELSE Ran(Return("message" :>
                        <<"Document ", dt, " ", name, " deleted successfully">>),
                 <<request>>)

submit_document(dt, name, replies) ==
    OneCall([method |-> "submit", target |-> dt, name |-> name], replies)

cancel_document(dt, name, replies) ==
    OneCall([method |-> "cancel", target |-> dt, name |-> name], replies)

get_list(dt, filters, replies) ==
    OneCall([method |-> "get_list", target |-> dt, filters |-> filters], replies)

search_documents(dt, query, replies) ==
    OneCall([method |-> "get_list", target |-> dt,
             filters |-> <<"name", "like", <<"%", query, "%">> >>], replies)

\* params or {}
OrEmptyDict(arg) == IF arg.is_none \/ arg.d = EmptyDict THEN EmptyDict ELSE arg.d

call_api(method, api_params, replies) ==
    OneCall([method |-> "get_api", target |-> method,
             payload |-> OrEmptyDict(api_params)], replies)

\* a placeholder that reports `filters or {}` instead of filters
ReportPlaceholder_FiltersOrEmpty(report_name, filters, text) ==
    [result |-> <<>>, columns |-> <<>>,
     message |-> <<"Report execution failed: ">> \o text \o
                 <<". This may be due to ERPNext API limitations or missing report configuration.">>,
     report_name |-> report_name,
     filters |-> DictArg(OrEmptyDict(filters)),
     error |-> TRUE]

\* the value execute_report returns from its innermost except branch
ReportPlaceholder(report_name, filters, text) ==
    [result |-> <<>>, columns |-> <<>>,
     message |-> <<"Report execution failed: ">> \o text \o
                 <<". This may be due to ERPNext API limitations or missing report configuration.">>,
     report_name |-> report_name,
     filters |-> filters,
     error |-> TRUE]

execute_report(report_name, filters, replies) ==
    LET primary == [method |-> "get_api", target |-> "frappe.desk.query_report.run",
                    payload |-> [report_name |-> report_name,
                                 filters |-> OrEmptyDict(filters)]]
        first == TransportCall(ReplyAt(replies, 1))
    IN  IF first.tag = "return"
        THEN Ran(handle_frappe_errors(first), <<primary>>)
        ELSE IF filters.is_none
        \* {"report_name": report_name, **filters} raises TypeError inside the
        \* inner try, before the second get_api
        THEN Ran(handle_frappe_errors(Return(ReportPlaceholder(report_name, filters,
                     <<"'NoneType' object is not a mapping">>))),
                 <<primary>>)
        ELSE LET fallback == [method |-> "get_api",
                              target |-> "frappe.desk.reportview.get_data",
                              payload |-> filters.d @@ ("report_name" :> report_name)]
                 second == TransportCall(ReplyAt(replies, 2))
             IN  Ran(handle_frappe_errors(
                         IF second.tag = "return" THEN second
                         ELSE Return(ReportPlaceholder(report_name, filters,
                                                       second.exc.message))),
                     <<primary, fallback>>)

-----------------------------------------------------------------------------
(* utils/doctype_mapping.py: the business-operation table *)

BUSINESS_OPERATIONS ==
    ("create_sales_invoice" :> DocTypes.SALES_INVOICE) @@
    ("create_purchase_invoice" :> DocTypes.PURCHASE_INVOICE) @@
    ("create_payment" :> DocTypes.PAYMENT_ENTRY) @@
    ("create_journal_entry" :> DocTypes.JOURNAL_ENTRY) @@
    ("approve_invoice" :> DocTypes.SALES_INVOICE) @@
    ("create_cost_center" :> DocTypes.COST_CENTER) @@
    ("create_budget" :> DocTypes.BUDGET) @@
    ("create_fiscal_year" :> DocTypes.FISCAL_YEAR) @@
    ("create_sales_order" :> DocTypes.SALES_ORDER) @@
    ("create_quotation" :> DocTypes.QUOTATION) @@
    ("create_customer" :> DocTypes.CUSTOMER) @@
    ("create_delivery_note" :> DocTypes.DELIVERY_NOTE) @@
    ("create_purchase_order" :> DocTypes.PURCHASE_ORDER) @@
    ("create_supplier_quotation" :> DocTypes.SUPPLIER_QUOTATION) @@
    ("create_supplier" :> DocTypes.SUPPLIER) @@
    ("create_purchase_receipt" :> DocTypes.PURCHASE_RECEIPT) @@
    ("create_item" :> DocTypes.ITEM) @@
    ("create_stock_entry" :> DocTypes.STOCK_ENTRY) @@
    ("create_warehouse" :> DocTypes.WAREHOUSE) @@
    ("create_item_price" :> DocTypes.ITEM_PRICE) @@
    ("create_price_list" :> DocTypes.PRICE_LIST) @@
    ("create_batch" :> DocTypes.BATCH) @@
    ("create_serial_no" :> DocTypes.SERIAL_NO) @@
    ("create_employee" :> DocTypes.EMPLOYEE) @@
    ("mark_attendance" :> DocTypes.ATTENDANCE) @@
    ("create_leave_application" :> DocTypes.LEAVE_APPLICATION) @@
    ("create_salary_structure" :> DocTypes.SALARY_STRUCTURE) @@
    ("create_salary_slip" :> DocTypes.SALARY_SLIP) @@
    ("create_job_applicant" :> DocTypes.JOB_APPLICANT) @@
    ("create_project" :> DocTypes.PROJECT) @@
    ("create_task" :> DocTypes.TASK) @@
    ("log_time" :> DocTypes.TIMESHEET) @@
    ("create_bom" :> DocTypes.BOM) @@
    ("create_work_order" :> DocTypes.WORK_ORDER) @@
    ("create_production_plan" :> DocTypes.PRODUCTION_PLAN) @@
    ("create_job_card" :> DocTypes.JOB_CARD) @@
    ("create_quality_inspection" :> DocTypes.QUALITY_INSPECTION) @@
    ("create_lead" :> DocTypes.LEAD) @@
    ("create_opportunity" :> DocTypes.OPPORTUNITY) @@
    ("create_campaign" :> DocTypes.CAMPAIGN) @@
    ("create_asset" :> DocTypes.ASSET) @@
    ("create_asset_category" :> DocTypes.ASSET_CATEGORY) @@
    ("create_asset_maintenance" :> DocTypes.ASSET_MAINTENANCE) @@
    ("create_asset_movement" :> DocTypes.ASSET_MOVEMENT) @@
    ("create_issue" :> DocTypes.ISSUE) @@
    ("create_service_level_agreement" :> DocTypes.SERVICE_LEVEL_AGREEMENT) @@
    ("create_warranty_claim" :> DocTypes.WARRANTY_CLAIM) @@
    ("create_workflow" :> DocTypes.WORKFLOW) @@
    ("create_print_format" :> DocTypes.PRINT_FORMAT) @@
    ("create_custom_field" :> DocTypes.CUSTOM_FIELD) @@
    ("create_notification" :> DocTypes.NOTIFICATION)

\* a lookup that answers None for a name the table lacks
get_doctype_for_operation_OrNone(name) ==
    IF name \notin DOMAIN BUSINESS_OPERATIONS
    THEN Return(PyNone)
    ELSE Return(BUSINESS_OPERATIONS[name])

get_doctype_for_operation(name) ==
    IF name \notin DOMAIN BUSINESS_OPERATIONS
    THEN Raise(PyException("ValueError", <<"Unsupported operation: ", name>>))
    ELSE Return(BUSINESS_OPERATIONS[name])

-----------------------------------------------------------------------------
(* The mapping layer applied to bounded inputs *)

\* business keys of the inputs: table keys with an identity target
\* (customer_name, grand_total), a renamed key and the verbatim key it lands
\* on (invoice_date, posting_date), keys outside the table, and doctype
BusinessKeys == {"customer_name", "customer_type", "customer", "items",
                 "invoice_date", "posting_date", "grand_total", "doctype"}

\* two DocumentTypes of the Required-Field Table and one absent from it
MapDocTypes == {DocTypes.CUSTOMER, DocTypes.SALES_INVOICE, DocTypes.LEAD}

KeySeqs(n) == {ks \in [1..n -> BusinessKeys] :
                 \A i, j \in 1..n : i # j => ks[i] # ks[j]}

BusinessRecords ==
    UNION {{[i \in 1..n |-> <<ks[i], vs[i]>>] :
              ks \in KeySeqs(n), vs \in [1..n -> Values]} : n \in 0..MaxParams}

\* no ERPNextClient method has been invoked
IdleClient ==
    /\ call = [prim |-> "none"]
    /\ transport = <<>>
    /\ requests = <<>>
    /\ outcome = [tag |-> "none"]

\* no tool has been called
IdleServer ==
    /\ tool = "none"
    /\ args = <<>>
    /\ calls = <<>>
    /\ fault = [tag |-> "none"]
    /\ response = [tag |-> "none"]

\* get_doctype_for_operation has not been called
IdleLookup ==
    /\ operation = PyNone
    /\ lookup = [tag |-> "none"]

\* the global client before initialize_client has built one
NoClient == [is_none |-> TRUE]

\* the configuration is the default one and no client is built
IdleBoot ==
    /\ config = ERPNextConfig(TRUE)
    /\ client = NoClient

\* no host thread has called update_document
IdleHost ==
    /\ stored = EmptyDict
    /\ threads = <<>>
    /\ IdleLookup
    /\ IdleBoot

InitMapping ==
    /\ params \in BusinessRecords
    /\ doctype \in MapDocTypes
    /\ data = AsDict(params)
    /\ missing = <<>>
    /\ step = "input"
    /\ IdleClient
    /\ IdleServer
    /\ IdleHost
    /\ initialized = FALSE

\* mapped_data = map_business_params_to_doctype_fields(params, doctype)
MapParams ==
    /\ step = "input"
    /\ data' = map_business_params_to_doctype_fields(params, doctype)
    /\ step' = "mapped"
    /\ UNCHANGED <<params, doctype, missing>>
    /\ UNCHANGED <<clientVars, serverVars, hostVars, utilVars, bootVars>>

\* missing = validate_required_fields(data, doctype), on the caller's record
\* as given or on the Mapper's result
ValidateData ==
    /\ step \in {"input", "mapped"}
    /\ missing' = validate_required_fields(data, doctype)
    /\ step' = IF step = "input" THEN "validated" ELSE "mapped_validated"
    /\ UNCHANGED <<params, doctype, data>>
    /\ UNCHANGED <<clientVars, serverVars, hostVars, utilVars, bootVars>>

\* the Mapper applied to its own result, with the same DocumentType
ReMapParams ==
    /\ step = "mapped"
    /\ data' = map_business_params_to_doctype_fields(DictItems(params, data), doctype)
    /\ step' = "remapped"
    /\ UNCHANGED <<params, doctype, missing>>
    /\ UNCHANGED <<clientVars, serverVars, hostVars, utilVars, bootVars>>

NextMapping == MapParams \/ ValidateData \/ ReMapParams

SpecMapping == InitMapping /\ [][NextMapping]_vars

\* the same layer on records whose values may be the empty string or the
\* empty list
SentinelRecords ==
    UNION {{[i \in 1..n |-> <<ks[i], vs[i]>>] :
              ks \in KeySeqs(n), vs \in [1..n -> Values \cup EmptyValues]} :
           n \in 0..MaxSentinelParams}

InitSentinels ==
    /\ params \in SentinelRecords
    /\ doctype \in MapDocTypes
    /\ data = AsDict(params)
    /\ missing = <<>>
    /\ step = "input"
    /\ IdleClient
    /\ IdleServer
    /\ IdleHost
    /\ initialized = FALSE

SpecSentinels == InitSentinels /\ [][NextMapping]_vars

-----------------------------------------------------------------------------
(* ERPNextClient invoked on bounded inputs, against any transport *)

\* the Mapper and the Validator are not running
IdleMapping ==
    /\ params = <<>>
    /\ doctype = DocTypes.CUSTOMER
    /\ data = EmptyDict
    /\ missing = <<>>
    /\ step = "idle"

ErrorTexts == UNION {[1..n -> Vocabulary] : n \in 0..MaxWords}

\* documents the transport returns
RemoteValues == {("name" :> "DOC-0001") @@ ("status" :> "Open"),
                 ("name" :> "DOC-0001") @@ ("status" :> "Open")
                     @@ ("priority" :> "Low")}

TransportReplies(texts) ==
    {[ok |-> TRUE, value |-> v] : v \in RemoteValues} \cup
    {[ok |-> FALSE, text |-> t] : t \in texts}

\* the answers of the transport to up to n successive calls
ReplySeqs(texts, n) == UNION {[1..k -> TransportReplies(texts)] : k \in 0..n}

ClientDocTypes == {DocTypes.CUSTOMER, DocTypes.TASK}
DocNames == {"DOC-0001"}
UpdateRecords == {("status" :> "Closed"),
                  ("status" :> "Closed") @@ ("owner" :> "ABC Corp")}
ReportNames == {"Balance Sheet", "General Ledger"}
FilterArgs == {NoneArg, DictArg(EmptyDict), DictArg("company" :> "ACME")}
ReportTexts == {<<"timeout">>, <<"Report", "not found">>, <<"login">>}

\* the invocation c ran against a transport that answered rs: every answer
\* was asked for, and no call went unanswered
Invoked(c, rs, run) ==
    /\ Len(run.wire) = Len(rs)
    /\ call' = c
    /\ transport' = rs
    /\ requests' = run.wire
    /\ outcome' = run.result
    /\ UNCHANGED <<mapVars, serverVars, hostVars, utilVars, bootVars>>

\* ERPNextClient keeps nothing between invocations (its only fields are the
\* connection settings), so each behaviour follows one invocation
CreateDocument ==
    /\ call.prim = "none"
    /\ \E dt \in ClientDocTypes, record \in UpdateRecords, rs \in ReplySeqs(ErrorTexts, 1) :
           Invoked([prim |-> "create_document", doctype |-> dt, data |-> record], rs,
                   create_document(dt, record, rs))

GetDocument ==
    /\ call.prim = "none"
    /\ \E dt \in ClientDocTypes, name \in DocNames, rs \in ReplySeqs(ErrorTexts, 1) :
           Invoked([prim |-> "get_document", doctype |-> dt, name |-> name], rs,
                   get_document(dt, name, rs))

UpdateDocument ==
    /\ call.prim = "none"
    /\ \E dt \in ClientDocTypes, name \in DocNames, record \in UpdateRecords,
          rs \in ReplySeqs(ErrorTexts, 2) :
           Invoked([prim |-> "update_document", doctype |-> dt, name |-> name,
                    data |-> record], rs,
                   update_document(dt, name, record, rs))

DeleteDocument ==
    /\ call.prim = "none"
    /\ \E dt \in ClientDocTypes, name \in DocNames, rs \in ReplySeqs(ErrorTexts, 1) :
           Invoked([prim |-> "delete_document", doctype |-> dt, name |-> name], rs,
                   delete_document(dt, name, rs))

SubmitDocument ==
    /\ call.prim = "none"
    /\ \E dt \in ClientDocTypes, name \in DocNames, rs \in ReplySeqs(ErrorTexts, 1) :
           Invoked([prim |-> "submit_document", doctype |-> dt, name |-> name], rs,
                   submit_document(dt, name, rs))

CancelDocument ==
    /\ call.prim = "none"
    /\ \E dt \in ClientDocTypes, name \in DocNames, rs \in ReplySeqs(ErrorTexts, 1) :
           Invoked([prim |-> "cancel_document", doctype |-> dt, name |-> name], rs,
                   cancel_document(dt, name, rs))

GetList ==
    /\ call.prim = "none"
    /\ \E dt \in ClientDocTypes, filters \in FilterArgs, rs \in ReplySeqs(ErrorTexts, 1) :
           Invoked([prim |-> "get_list", doctype |-> dt, filters |-> filters], rs,
                   get_list(dt, filters, rs))

SearchDocuments ==
    /\ call.prim = "none"
    /\ \E dt \in ClientDocTypes, query \in {"ABC"}, rs \in ReplySeqs(ErrorTexts, 1) :
           Invoked([prim |-> "search_documents", doctype |-> dt, query |-> query], rs,
                   search_documents(dt, query, rs))

CallApi ==
    /\ call.prim = "none"
    /\ \E method \in {"frappe.ping"}, api_params \in FilterArgs,
          rs \in ReplySeqs(ErrorTexts, 1) :
           Invoked([prim |-> "call_api", method |-> method, params |-> api_params], rs,
                   call_api(method, api_params, rs))

ExecuteReport ==
    /\ call.prim = "none"
    /\ \E report_name \in ReportNames, filters \in FilterArgs,
          rs \in ReplySeqs(ReportTexts, 2) :
           Invoked([prim |-> "execute_report", report_name |-> report_name,
                    filters |-> filters], rs,
                   execute_report(report_name, filters, rs))

InitClient == IdleMapping /\ IdleClient /\ IdleServer /\ IdleHost /\ initialized = FALSE

NextClient ==
    \/ CreateDocument
    \/ GetDocument
    \/ UpdateDocument
    \/ DeleteDocument
    \/ SubmitDocument
    \/ CancelDocument
    \/ GetList
    \/ SearchDocuments
    \/ CallApi
    \/ ExecuteReport

SpecClient == InitClient /\ [][NextClient]_vars

-----------------------------------------------------------------------------
(* update_document called by concurrent host threads on one remote document *)

\* the threads of the host, each inside one update_document call
Hosts == {"host1", "host2"}

\* the data argument of those calls
HostUpdates == {("status" :> "Closed"), ("priority" :> "High"),
                ("owner" :> "ABC Corp"),
                ("status" :> "Closed") @@ ("owner" :> "ABC Corp")}

\* every thread has entered update_document for the same doctype and name;
\* nothing in ERPNextClient or in the Domain Operations takes a lock
InitConcurrent ==
    /\ IdleMapping
    /\ IdleClient
    /\ IdleServer
    /\ initialized = FALSE
    /\ IdleLookup
    /\ IdleBoot
    /\ stored \in RemoteValues
    /\ threads \in [Hosts -> {[pc |-> "called", data |-> d, existing |-> EmptyDict] :
                                d \in HostUpdates}]

\* existing = self.client.get_doc(doctype, name): the site answers with the
\* document it holds, or the call raises and the method is left
UpdateDocumentFetch ==
    /\ DOMAIN threads = Hosts
    /\ \E h \in Hosts, ok \in BOOLEAN :
           /\ threads[h].pc = "called"
           /\ threads' = [threads EXCEPT ![h] =
                             IF ok THEN [@ EXCEPT !.pc = "fetched", !.existing = stored]
                             ELSE [@ EXCEPT !.pc = "raised"]]
    /\ UNCHANGED <<stored, mapVars, clientVars, serverVars, utilVars, bootVars>>

\* existing.update(data); self.client.update(existing): the site stores the
\* record it is sent, or the call raises and nothing is stored
UpdateDocumentSubmit ==
    /\ DOMAIN threads = Hosts
    /\ \E h \in Hosts, ok \in BOOLEAN :
           /\ threads[h].pc = "fetched"
           /\ stored' = IF ok THEN DictUpdate(threads[h].existing, threads[h].data)
                        ELSE stored
           /\ threads' = [threads EXCEPT ![h].pc = IF ok THEN "returned" ELSE "raised"]
    /\ UNCHANGED <<mapVars, clientVars, serverVars, utilVars, bootVars>>

NextConcurrent == UpdateDocumentFetch \/ UpdateDocumentSubmit

SpecConcurrent == InitConcurrent /\ [][NextConcurrent]_vars

-----------------------------------------------------------------------------
(* domains/*.py: the Domain Operations the tools delegate to *)

\* sep.join(fields)
RECURSIVE Join(_, _)
Join(fields, sep) ==
    IF Len(fields) <= 1 THEN fields
    ELSE <<Head(fields), sep>> \o Join(Tail(fields), sep)

\* the AttributeError of reading a name the object does not have
AttributeError(owner, attribute) ==
    PyException("AttributeError",
                <<"'", owner, "' object has no attribute '", attribute, "'">>)

\* what a Domain Operation did: what it returned or raised, the Remote Client
\* primitives it invoked, the transport calls those made, and whether it
\* reached the Mapper and the Validator
DomainRan(result, prims, wire) ==
    [result |-> result, calls |-> prims, wire |-> wire, mapping |-> [ran |-> FALSE]]

\* format_success_response(result, message) on what a primitive returned; an
\* exception of the primitive passes through
Succeed(run, message) ==
    IF run.result.tag = "return"
    THEN Return(format_success_response(run.result.value, message))
    ELSE run.result

\* a body that validates only after the document was created
ValidatedCreate_CreateFirst(dt, record, message, replies) ==
    LET mapped_data == map_business_params_to_doctype_fields(record, dt)
        missing_fields == validate_required_fields(mapped_data, dt)
        stage == [ran |-> TRUE, params |-> record, doctype |-> dt,
                  data |-> mapped_data, missing |-> missing_fields]
        run == create_document(dt, mapped_data, replies)
        created == <<[prim |-> "create_document", doctype |-> dt,
                      data |-> mapped_data]>>
    IN  IF run.result.tag = "return" /\ missing_fields # <<>>
        THEN [result |-> Raise(ValidationError(
                             <<"Missing required fields: ">> \o
                             Join(missing_fields, ", "))),
              calls |-> created, wire |-> run.wire, mapping |-> stage]
        ELSE [result |-> Succeed(run, message),
              calls |-> created, wire |-> run.wire, mapping |-> stage]

\* the body shared by the create operations that validate: map the record,
\* validate it, raise ValidationError naming the missing fields, else create
ValidatedCreate(dt, record, message, replies) ==
    LET mapped_data == map_business_params_to_doctype_fields(record, dt)
        missing_fields == validate_required_fields(mapped_data, dt)
        stage == [ran |-> TRUE, params |-> record, doctype |-> dt,
                  data |-> mapped_data, missing |-> missing_fields]
        run == create_document(dt, mapped_data, replies)
    IN  IF missing_fields # <<>>
        THEN [result |-> Raise(ValidationError(
                             <<"Missing required fields: ">> \o
                             Join(missing_fields, ", "))),
              calls |-> <<>>, wire |-> <<>>, mapping |-> stage]
        ELSE [result |-> Succeed(run, message),
              calls |-> <<[prim |-> "create_document", doctype |-> dt,
                           data |-> mapped_data]>>,
              wire |-> run.wire, mapping |-> stage]

\* the body of the create operations that map and validate the record and
\* then ask the client for create_doc, which ERPNextClient does not define
MappedCreate(dt, record) ==
    LET mapped_data == map_business_params_to_doctype_fields(record, dt)
        missing_fields == validate_required_fields(mapped_data, dt)
        stage == [ran |-> TRUE, params |-> record, doctype |-> dt,
                  data |-> mapped_data, missing |-> missing_fields]
    IN  IF missing_fields # <<>>
        THEN [result |-> Raise(ValidationError(
                             <<"Missing required fields: ">> \o
                             Join(missing_fields, ", "))),
              calls |-> <<>>, wire |-> <<>>, mapping |-> stage]
        ELSE [result |-> Raise(AttributeError("ERPNextClient", "create_doc")),
              calls |-> <<>>, wire |-> <<>>, mapping |-> stage]

HROperations_create_salary_slip(employee, start_date, end_date) ==
    MappedCreate(DocTypes.SALARY_SLIP,
                 << <<"employee", employee>>, <<"start_date", start_date>>,
                    <<"end_date", end_date>> >>)

SupportOperations_create_service_level_agreement(service_level, customer, start_date, end_date) ==
    MappedCreate(DocTypes.SERVICE_LEVEL_AGREEMENT,
                 << <<"service_level", service_level>>, <<"customer", customer>>,
                    <<"start_date", start_date>>, <<"end_date", end_date>> >>)

ManufacturingOperations_create_bom(item, items, quantity) ==
    MappedCreate(DocTypes.BOM,
                 << <<"item", item>>, <<"items", items>>,
                    <<"quantity", quantity>> >>)

AccountingOperations_create_sales_invoice(customer, items, posting_date, due_date, replies) ==
    ValidatedCreate(DocTypes.SALES_INVOICE,
                    << <<"customer", customer>>, <<"items", items>>,
                       <<"posting_date", posting_date>>, <<"due_date", due_date>> >>,
                    "Sales invoice created successfully", replies)

AccountingOperations_create_purchase_invoice(supplier, items, posting_date, due_date, replies) ==
    ValidatedCreate(DocTypes.PURCHASE_INVOICE,
                    << <<"supplier", supplier>>, <<"items", items>>,
                       <<"posting_date", posting_date>>, <<"due_date", due_date>> >>,
                    "Purchase invoice created successfully", replies)

AccountingOperations_create_payment(payment_type, party_type, party, paid_amount, replies) ==
    ValidatedCreate(DocTypes.PAYMENT_ENTRY,
                    << <<"payment_type", payment_type>>, <<"party_type", party_type>>,
                       <<"party", party>>, <<"paid_amount", paid_amount>>,
                       <<"paid_from", PyNone>>, <<"paid_to", PyNone>>,
                       <<"posting_date", PyNone>> >>,
                    "Payment entry created successfully", replies)

SalesOperations_create_sales_order(customer, items, delivery_date, replies) ==
    ValidatedCreate(DocTypes.SALES_ORDER,
                    << <<"customer", customer>>, <<"items", items>>,
                       <<"delivery_date", delivery_date>> >>,
                    "Sales order created successfully", replies)

SalesOperations_create_customer(customer_name, customer_type, replies) ==
    ValidatedCreate(DocTypes.CUSTOMER,
                    << <<"customer_name", customer_name>>,
                       <<"customer_type", customer_type>>,
                       <<"email_id", PyNone>>, <<"mobile_no", PyNone>> >>,
                    "Customer created successfully", replies)

PurchasingOperations_create_purchase_order(supplier, items, schedule_date, replies) ==
    ValidatedCreate(DocTypes.PURCHASE_ORDER,
                    << <<"supplier", supplier>>, <<"items", items>>,
                       <<"schedule_date", schedule_date>> >>,
                    "Purchase order created successfully", replies)

PurchasingOperations_create_supplier(supplier_name, supplier_type, replies) ==
    ValidatedCreate(DocTypes.SUPPLIER,
                    << <<"supplier_name", supplier_name>>,
                       <<"supplier_type", supplier_type>>,
                       <<"email_id", PyNone>>, <<"mobile_no", PyNone>> >>,
                    "Supplier created successfully", replies)

InventoryOperations_create_item(item_code, item_name, item_group, replies) ==
    ValidatedCreate(DocTypes.ITEM,
                    << <<"item_code", item_code>>, <<"item_name", item_name>>,
                       <<"item_group", item_group>>, <<"stock_uom", "Nos">> >>,
                    "Item created successfully", replies)

HROperations_create_employee(employee_name, date_of_joining, replies) ==
    ValidatedCreate(DocTypes.EMPLOYEE,
                    << <<"employee_name", employee_name>>,
                       <<"date_of_joining", date_of_joining>>,
                       <<"department", PyNone>>, <<"designation", PyNone>> >>,
                    "Employee created successfully", replies)

ProjectsOperations_create_project(project_name, replies) ==
    ValidatedCreate(DocTypes.PROJECT,
                    << <<"project_name", project_name>>, <<"project_type", PyNone>>,
                       <<"customer", PyNone>>, <<"expected_start_date", PyNone>>,
                       <<"expected_end_date", PyNone>> >>,
                    "Project created successfully", replies)

ProjectsOperations_create_task(subject, project, priority, replies) ==
    ValidatedCreate(DocTypes.TASK,
                    << <<"subject", subject>>, <<"project", project>>,
                       <<"priority", priority>>, <<"status", "Open">>,
                       <<"assigned_to", PyNone>>, <<"exp_start_date", PyNone>>,
                       <<"exp_end_date", PyNone>> >>,
                    "Task created successfully", replies)

\* the operations whose body is one of a few shapes, by shape ("kind"):
\*   create      map the record, then client.create_document
\*   submit      client.submit_document
\*   list        build the filters, then client.get_list
\*   search      client.search_documents
\*   report      build the filters, then client.execute_report
\*   undefined   the first thing the body asks of the client is a method
\*               ERPNextClient does not define (named by attribute)
\* the other kinds name operations modelled one by one below. message is the
\* text given to format_success_response, an f-string kept as written. An
\* operation a tool names but the class does not define has no entry.
AccountingOperations ==
    ("create_sales_invoice" :>
        [kind |-> "validated_create"]) @@
    ("approve_sales_invoice" :>
        [kind |-> "submit", doctype |-> DocTypes.SALES_INVOICE, message |-> "Sales invoice approved successfully"]) @@
    ("create_purchase_invoice" :>
        [kind |-> "validated_create"]) @@
    ("create_payment" :>
        [kind |-> "validated_create"]) @@
    ("create_cost_center" :>
        [kind |-> "undefined", attribute |-> "create_doc"]) @@
    ("create_budget" :>
        [kind |-> "undefined", attribute |-> "create_doc"]) @@
    ("create_fiscal_year" :>
        [kind |-> "undefined", attribute |-> "create_doc"]) @@
    ("get_financial_statements" :>
        [kind |-> "dispatch"]) @@
    ("get_balance_sheet" :>
        [kind |-> "report", report_name |-> "Balance Sheet", defaults |-> ("periodicity" :> "Monthly") @@ ("filter_based_on" :> "Date Range"), message |-> "Balance Sheet retrieved successfully"]) @@
    ("get_profit_and_loss" :>
        [kind |-> "report", report_name |-> "Profit and Loss Statement", defaults |-> ("periodicity" :> "Monthly") @@ ("filter_based_on" :> "Date Range"), message |-> "Profit and Loss Statement retrieved successfully"]) @@
    ("get_cash_flow" :>
        [kind |-> "report", report_name |-> "Cash Flow", defaults |-> ("periodicity" :> "Monthly") @@ ("filter_based_on" :> "Date Range"), message |-> "Cash Flow Statement retrieved successfully"]) @@
    ("get_trial_balance" :>
        [kind |-> "report", report_name |-> "Trial Balance", defaults |-> ("periodicity" :> "Monthly"), message |-> "Trial Balance retrieved successfully"]) @@
    ("get_general_ledger" :>
        [kind |-> "report", report_name |-> "General Ledger", defaults |-> ("group_by" :> "") @@ ("account" :> "") @@ ("party_type" :> "") @@ ("party" :> ""), message |-> "General Ledger retrieved successfully"]) @@
    ("get_invoices_list" :>
        [kind |-> "invoices"])

PurchasingOperations ==
    ("create_purchase_order" :>
        [kind |-> "validated_create"]) @@
    ("create_supplier" :>
        [kind |-> "validated_create"]) @@
    ("approve_purchase_order" :>
        [kind |-> "submit", doctype |-> DocTypes.PURCHASE_ORDER, message |-> "Purchase order approved successfully"]) @@
    ("create_purchase_receipt" :>
        [kind |-> "create", doctype |-> DocTypes.PURCHASE_RECEIPT, keys |-> <<"supplier", "items", "posting_date", "purchase_order">>, message |-> "Purchase receipt created successfully"]) @@
    ("search_suppliers" :>
        [kind |-> "search", doctype |-> DocTypes.SUPPLIER, message |-> "Found suppliers matching '{query}'"]) @@
    ("get_purchase_orders_list" :>
        [kind |-> "list", doctype |-> DocTypes.PURCHASE_ORDER, builds_filters |-> FALSE, fixed |-> <<>>, optional |-> <<>>, like |-> FALSE, message |-> "Purchase orders retrieved successfully"])

SalesOperations ==
    ("create_sales_order" :>
        [kind |-> "validated_create"]) @@
    ("create_customer" :>
        [kind |-> "validated_create"]) @@
    ("create_quotation" :>
        [kind |-> "create", doctype |-> DocTypes.QUOTATION, keys |-> <<"quotation_to", "party_name", "items", "valid_till">>, message |-> "Quotation created successfully"]) @@
    ("create_delivery_note" :>
        [kind |-> "undefined", attribute |-> "create_doc"]) @@
    ("create_sales_return" :>
        [kind |-> "undefined", attribute |-> "create_doc"]) @@
    ("submit_delivery_note" :>
        [kind |-> "undefined", attribute |-> "submit_doc"]) @@
    ("get_delivery_notes_list" :>
        [kind |-> "list", doctype |-> DocTypes.DELIVERY_NOTE, builds_filters |-> TRUE, fixed |-> <<>>, optional |-> <<"customer", "status">>, like |-> FALSE, message |-> "Retrieved {len(result)} delivery notes"]) @@
    ("search_customers" :>
        [kind |-> "search", doctype |-> DocTypes.CUSTOMER, message |-> "Found customers matching '{query}'"]) @@
    ("get_sales_orders_list" :>
        [kind |-> "list", doctype |-> DocTypes.SALES_ORDER, builds_filters |-> FALSE, fixed |-> <<>>, optional |-> <<>>, like |-> FALSE, message |-> "Sales orders retrieved successfully"])

InventoryOperations ==
    ("create_item" :>
        [kind |-> "validated_create"]) @@
    ("create_stock_entry" :>
        [kind |-> "create", doctype |-> DocTypes.STOCK_ENTRY, keys |-> <<"stock_entry_type", "items", "posting_date">>, message |-> "Stock entry created successfully"]) @@
    ("get_stock_balance" :>
        [kind |-> "placeholder", message |-> "Stock balance retrieved for {item_code}"]) @@
    ("create_item_price" :>
        [kind |-> "undefined", attribute |-> "create_doc"]) @@
    ("create_price_list" :>
        [kind |-> "undefined", attribute |-> "create_doc"]) @@
    ("create_batch" :>
        [kind |-> "undefined", attribute |-> "create_doc"]) @@
    ("create_serial_no" :>
        [kind |-> "undefined", attribute |-> "create_doc"]) @@
    ("get_stock_report" :>
        [kind |-> "list", doctype |-> DocTypes.STOCK_LEDGER_ENTRY, builds_filters |-> TRUE, fixed |-> <<>>, optional |-> <<"warehouse">>, like |-> FALSE, message |-> "Retrieved {len(result)} stock records"]) @@
    ("get_item_prices" :>
        [kind |-> "list", doctype |-> DocTypes.ITEM_PRICE, builds_filters |-> TRUE, fixed |-> <<"item_code">>, optional |-> <<"price_list">>, like |-> FALSE, message |-> "Retrieved {len(result)} price records"]) @@
    ("search_items" :>
        [kind |-> "search", doctype |-> DocTypes.ITEM, message |-> "Found items matching '{query}'"])

HROperations ==
    ("create_employee" :>
        [kind |-> "validated_create"]) @@
    ("mark_attendance" :>
        [kind |-> "create", doctype |-> DocTypes.ATTENDANCE, keys |-> <<"employee", "attendance_date", "status">>, message |-> "Attendance marked successfully"]) @@
    ("create_leave_application" :>
        [kind |-> "undefined", attribute |-> "create_doc"]) @@
    ("create_salary_structure" :>
        [kind |-> "undefined", attribute |-> "create_doc"]) @@
    ("create_salary_slip" :>
        [kind |-> "mapped_undefined", attribute |-> "create_doc"]) @@
    ("create_job_applicant" :>
        [kind |-> "undefined", attribute |-> "create_doc"]) @@
    ("approve_leave_application" :>
        [kind |-> "undefined", attribute |-> "submit_doc"]) @@
    ("get_leave_applications_list" :>
        [kind |-> "list", doctype |-> DocTypes.LEAVE_APPLICATION, builds_filters |-> TRUE, fixed |-> <<>>, optional |-> <<"employee", "status">>, like |-> FALSE, message |-> "Retrieved {len(result)} leave applications"])

ProjectsOperations ==
    ("create_project" :>
        [kind |-> "validated_create"]) @@
    ("create_task" :>
        [kind |-> "validated_create"]) @@
    ("log_time" :>
        [kind |-> "timesheet"])

ManufacturingOperations ==
    ("create_bom" :>
        [kind |-> "mapped_undefined", attribute |-> "create_doc"]) @@
    ("create_work_order" :>
        [kind |-> "undefined", attribute |-> "create_doc"]) @@
    ("create_production_plan" :>
        [kind |-> "undefined", attribute |-> "create_doc"]) @@
    ("start_work_order" :>
        [kind |-> "undefined", attribute |-> "submit_doc"]) @@
    ("complete_work_order" :>
        [kind |-> "undefined", attribute |-> "update_doc"]) @@
    ("create_quality_inspection" :>
        [kind |-> "undefined", attribute |-> "create_doc"]) @@
    ("get_work_orders_list" :>
        [kind |-> "list", doctype |-> DocTypes.WORK_ORDER, builds_filters |-> TRUE, fixed |-> <<>>, optional |-> <<"status">>, like |-> FALSE, message |-> "Retrieved {len(result)} work orders"]) @@
    ("get_bom_list" :>
        [kind |-> "list", doctype |-> DocTypes.BOM, builds_filters |-> TRUE, fixed |-> <<>>, optional |-> <<"item">>, like |-> FALSE, message |-> "Retrieved {len(result)} BOMs"])

CRMOperations ==
    ("create_lead" :>
        [kind |-> "undefined", attribute |-> "create_doc"]) @@
    ("create_opportunity" :>
        [kind |-> "undefined", attribute |-> "create_doc"]) @@
    ("create_campaign" :>
        [kind |-> "undefined", attribute |-> "create_doc"]) @@
    ("convert_lead_to_customer" :>
        [kind |-> "undefined", attribute |-> "get_doc"]) @@
    ("convert_lead_to_opportunity" :>
        [kind |-> "undefined", attribute |-> "create_doc"]) @@
    ("update_opportunity_status" :>
        [kind |-> "undefined", attribute |-> "update_doc"]) @@
    ("search_leads" :>
        [kind |-> "list", doctype |-> DocTypes.LEAD, builds_filters |-> TRUE, fixed |-> <<"lead_name">>, optional |-> <<>>, like |-> TRUE, message |-> "Found {len(result)} leads"]) @@
    ("get_leads_list" :>
        [kind |-> "list", doctype |-> DocTypes.LEAD, builds_filters |-> TRUE, fixed |-> <<>>, optional |-> <<"status">>, like |-> FALSE, message |-> "Retrieved {len(result)} leads"]) @@
    ("get_opportunities_list" :>
        [kind |-> "list", doctype |-> DocTypes.OPPORTUNITY, builds_filters |-> TRUE, fixed |-> <<>>, optional |-> <<"status">>, like |-> FALSE, message |-> "Retrieved {len(result)} opportunities"])

AssetManagementOperations ==
    ("create_asset" :>
        [kind |-> "undefined", attribute |-> "create_doc"]) @@
    ("create_asset_category" :>
        [kind |-> "undefined", attribute |-> "create_doc"]) @@
    ("create_asset_maintenance" :>
        [kind |-> "undefined", attribute |-> "create_doc"]) @@
    ("transfer_asset" :>
        [kind |-> "undefined", attribute |-> "create_doc"]) @@
    ("create_asset_depreciation" :>
        [kind |-> "undefined", attribute |-> "call_method"]) @@
    ("get_assets_list" :>
        [kind |-> "list", doctype |-> DocTypes.ASSET, builds_filters |-> TRUE, fixed |-> <<>>, optional |-> <<"asset_category", "status">>, like |-> FALSE, message |-> "Retrieved {len(result)} assets"]) @@
    ("search_assets" :>
        [kind |-> "list", doctype |-> DocTypes.ASSET, builds_filters |-> TRUE, fixed |-> <<"asset_name">>, optional |-> <<>>, like |-> TRUE, message |-> "Found {len(result)} assets"])

SupportOperations ==
    ("create_issue" :>
        [kind |-> "undefined", attribute |-> "create_doc"]) @@
    ("create_service_level_agreement" :>
        [kind |-> "mapped_undefined", attribute |-> "create_doc"]) @@
    ("create_warranty_claim" :>
        [kind |-> "undefined", attribute |-> "create_doc"]) @@
    ("update_issue_status" :>
        [kind |-> "undefined", attribute |-> "update_doc"]) @@
    ("assign_issue" :>
        [kind |-> "undefined", attribute |-> "update_doc"]) @@
    ("close_issue" :>
        [kind |-> "undefined", attribute |-> "update_doc"]) @@
    ("get_issues_list" :>
        [kind |-> "list", doctype |-> DocTypes.ISSUE, builds_filters |-> TRUE, fixed |-> <<>>, optional |-> <<"customer", "status", "priority">>, like |-> FALSE, message |-> "Retrieved {len(result)} issues"]) @@
    ("search_issues" :>
        [kind |-> "list", doctype |-> DocTypes.ISSUE, builds_filters |-> TRUE, fixed |-> <<"subject">>, optional |-> <<>>, like |-> TRUE, message |-> "Found {len(result)} issues"])

UtilitiesOperations ==
    ("create_workflow" :>
        [kind |-> "undefined", attribute |-> "create_doc"]) @@
    ("create_custom_field" :>
        [kind |-> "undefined", attribute |-> "create_doc"]) @@
    ("backup_database" :>
        [kind |-> "undefined", attribute |-> "call_method"]) @@
    ("execute_report" :>
        [kind |-> "undefined", attribute |-> "call_method"]) @@
    ("bulk_update_documents" :>
        [kind |-> "bulk"]) @@
    ("get_system_settings" :>
        [kind |-> "undefined", attribute |-> "get_doc"]) @@
    ("get_document_permissions" :>
        [kind |-> "undefined", attribute |-> "call_method"])


\* the record a create operation assembles from its arguments; the arguments
\* the tool does not pass stay at their None default
CreateRecord(body, a) ==
    [i \in 1..Len(body.keys) |->
        <<body.keys[i], IF i \in DOMAIN a THEN a[i] ELSE PyNone>>]

CreateOp(body, a, replies) ==
    LET mapped_data ==
            map_business_params_to_doctype_fields(CreateRecord(body, a), body.doctype)
        run == create_document(body.doctype, mapped_data, replies)
    IN  DomainRan(Succeed(run, body.message),
                  <<[prim |-> "create_document", doctype |-> body.doctype,
                     data |-> mapped_data]>>,
                  run.wire)

SubmitOp(body, a, replies) ==
    LET run == submit_document(body.doctype, a[1], replies)
    IN  DomainRan(Succeed(run, body.message),
                  <<[prim |-> "submit_document", doctype |-> body.doctype,
                     name |-> a[1]]>>,
                  run.wire)

\* filters = {...}; if arg: filters[key] = arg
ListFilters(body, a) ==
    LET keys == body.fixed \o body.optional
        set == {i \in DOMAIN keys : i <= Len(body.fixed) \/ a[i] # PyNone}
    IN  IF ~body.builds_filters THEN NoneArg
        ELSE DictArg([k \in {keys[i] : i \in set} |->
                        LET i == CHOOSE j \in set : keys[j] = k
                        IN  IF body.like THEN <<"like", <<"%", a[i], "%">> >> ELSE a[i]])

ListOp(body, a, replies) ==
    LET filters == ListFilters(body, a)
        run == get_list(body.doctype, filters, replies)
    IN  DomainRan(Succeed(run, body.message),
                  <<[prim |-> "get_list", doctype |-> body.doctype,
                     filters |-> filters]>>,
                  run.wire)

SearchOp(body, a, replies) ==
    LET run == search_documents(body.doctype, a[1], replies)
    IN  DomainRan(Succeed(run, body.message),
                  <<[prim |-> "search_documents", doctype |-> body.doctype,
                     query |-> a[1]]>>,
                  run.wire)

\* filters = {"company": ..., "from_date": ..., "to_date": ...,
\*            key: kwargs.get(key, default), ..., **kwargs}
ReportFilters(body, company, from_date, to_date, kwargs) ==
    kwargs @@ body.defaults @@
    ("company" :> company) @@ ("from_date" :> from_date) @@ ("to_date" :> to_date)

\* a report operation that answers a failed report with a success envelope
ReportOpOver_Swallowing(body, filters, run) ==
    DomainRan(IF run.result.tag = "return" THEN Succeed(run, body.message)
              ELSE Return(format_success_response(
                       [error |-> TRUE, result |-> <<>>, columns |-> <<>>],
                       body.message)),
              <<[prim |-> "execute_report", report_name |-> body.report_name,
                 filters |-> filters]>>,
              run.wire)

\* result = self.client.execute_report(name, filters), then the success
\* envelope; `except Exception: raise` lets the client's exception through.
\* run is what the client's execute_report did
ReportOpOver(body, filters, run) ==
    DomainRan(Succeed(run, body.message),
              <<[prim |-> "execute_report", report_name |-> body.report_name,
                 filters |-> filters]>>,
              run.wire)

ReportOp(body, company, from_date, to_date, kwargs, replies) ==
    LET filters == DictArg(ReportFilters(body, company, from_date, to_date, kwargs))
    IN  ReportOpOver(body, filters, execute_report(body.report_name, filters, replies))

\* a client that does create the document before a later step fails
UndefinedOp_CreatedThenFailed(body) ==
    DomainRan(Raise(AttributeError("ERPNextClient", body.attribute)),
              <<[prim |-> "create_document"]>>,
              <<[method |-> "insert"]>>)

UndefinedOp(body) ==
    DomainRan(Raise(AttributeError("ERPNextClient", body.attribute)), <<>>, <<>>)

\* a dispatch that sends the income-statement names to the balance sheet
AccountingOperations_get_financial_statements_Merged(company, report_type, from_date, to_date, replies) ==
    LET lowered == LowerWord(report_type)
        NoKwargs == <<>>
    IN  IF lowered \in {"balance sheet", "balance_sheet",
                        "income statement", "income_statement"}
        THEN ReportOp(AccountingOperations["get_balance_sheet"],
                      company, from_date, to_date, NoKwargs, replies)
        ELSE IF lowered \in {"profit and loss", "profit_and_loss"}
        THEN ReportOp(AccountingOperations["get_profit_and_loss"],
                      company, from_date, to_date, NoKwargs, replies)
        ELSE IF lowered \in {"cash flow", "cash_flow", "cash flow statement",
                             "cash_flow_statement"}
        THEN ReportOp(AccountingOperations["get_cash_flow"],
                      company, from_date, to_date, NoKwargs, replies)
        ELSE DomainRan(Raise(ValidationError(
                 <<"Unsupported report type: ", report_type,
                   ". Supported types: Balance Sheet, Profit and Loss, Cash Flow">>)),
                 <<>>, <<>>)

AccountingOperations_get_financial_statements(company, report_type, from_date, to_date, replies) ==
    LET lowered == LowerWord(report_type)
        NoKwargs == <<>>
    IN  IF lowered \in {"balance sheet", "balance_sheet"}
        THEN ReportOp(AccountingOperations["get_balance_sheet"],
                      company, from_date, to_date, NoKwargs, replies)
        ELSE IF lowered \in {"profit and loss", "profit_and_loss",
                             "income statement", "income_statement"}
        THEN ReportOp(AccountingOperations["get_profit_and_loss"],
                      company, from_date, to_date, NoKwargs, replies)
        ELSE IF lowered \in {"cash flow", "cash_flow", "cash flow statement",
                             "cash_flow_statement"}
        THEN ReportOp(AccountingOperations["get_cash_flow"],
                      company, from_date, to_date, NoKwargs, replies)
        ELSE DomainRan(Raise(ValidationError(
                 <<"Unsupported report type: ", report_type,
                   ". Supported types: Balance Sheet, Profit and Loss, Cash Flow">>)),
                 <<>>, <<>>)

AccountingOperations_get_invoices_list(invoice_type, replies) ==
    LET dt == IF LowerWord(invoice_type) = "sales" THEN DocTypes.SALES_INVOICE
              ELSE DocTypes.PURCHASE_INVOICE
        run == get_list(dt, NoneArg, replies)
    IN  IF invoice_type = PyNone
        THEN DomainRan(Raise(AttributeError("NoneType", "lower")), <<>>, <<>>)
        ELSE DomainRan(Succeed(run, "{invoice_type.title()} invoices retrieved successfully"),
                       <<[prim |-> "get_list", doctype |-> dt, filters |-> NoneArg]>>,
                       run.wire)

ProjectsOperations_log_time(employee, hours, activity_type, from_time, to_time, replies) ==
    LET timesheet_data ==
            << <<"employee", employee>>,
               <<"time_logs", <<[activity_type |-> activity_type, hours |-> hours,
                                 from_time |-> from_time, to_time |-> to_time,
                                 project |-> PyNone, task |-> PyNone]>> >> >>
        mapped_data ==
            map_business_params_to_doctype_fields(timesheet_data, DocTypes.TIMESHEET)
        run == create_document(DocTypes.TIMESHEET, mapped_data, replies)
    IN  DomainRan(Succeed(run, "Time logged successfully"),
                  <<[prim |-> "create_document", doctype |-> DocTypes.TIMESHEET,
                     data |-> mapped_data]>>,
                  run.wire)

\* a placeholder: no Remote Client primitive is asked
InventoryOperations_get_stock_balance(item_code, warehouse) ==
    DomainRan(Return(format_success_response(
                  [item_code |-> item_code,
                   warehouse |-> IF warehouse = PyNone THEN "All Warehouses"
                                 ELSE warehouse,
                   balance_qty |-> 0,
                   message |-> "This would require a custom ERPNext API method to get real stock balance"],
                  "Stock balance retrieved for {item_code}")),
              <<>>, <<>>)

\* the documents are listed; each update asks the client for update_doc, which
\* ERPNextClient does not define, and the AttributeError is swallowed per
\* document, so no document is counted as updated
UtilitiesOperations_bulk_update_documents(dt, filters, update_fields, replies) ==
    LET run == get_list(dt, DictArg(filters), replies)
        listed == [prim |-> "get_list", doctype |-> dt, filters |-> DictArg(filters)]
    IN  IF run.result.tag = "raise"
        THEN DomainRan(run.result, <<listed>>, run.wire)
        ELSE DomainRan(Return(format_success_response(
                           [total_found |-> Len(run.result.value),
                            updated_count |-> 0,
                            update_fields |-> update_fields],
                           "Bulk update completed: {updated_count}/{len(docs)} documents updated")),
                       <<listed>>, run.wire)

-----------------------------------------------------------------------------
(* server.py: the tools, behind handle_operation_error *)

\* the module globals accounting ... utilities once initialize_client has run
DomainObjects ==
    ("accounting" :> AccountingOperations) @@
    ("purchasing" :> PurchasingOperations) @@
    ("sales" :> SalesOperations) @@
    ("inventory" :> InventoryOperations) @@
    ("hr" :> HROperations) @@
    ("projects" :> ProjectsOperations) @@
    ("manufacturing" :> ManufacturingOperations) @@
    ("crm" :> CRMOperations) @@
    ("assets" :> AssetManagementOperations) @@
    ("support" :> SupportOperations) @@
    ("utilities" :> UtilitiesOperations)

\* the tools: the Domain Operation each delegates to, the number of arguments
\* it takes (limit left out) and the ones it passes by keyword
ServerTools ==
    ("create_sales_invoice" :> [domain |-> "accounting", op |-> "create_sales_invoice", argc |-> 4, keywords |-> <<>>]) @@
    ("approve_sales_invoice" :> [domain |-> "accounting", op |-> "approve_sales_invoice", argc |-> 1, keywords |-> <<>>]) @@
    ("create_purchase_invoice" :> [domain |-> "accounting", op |-> "create_purchase_invoice", argc |-> 4, keywords |-> <<>>]) @@
    ("create_payment" :> [domain |-> "accounting", op |-> "create_payment", argc |-> 4, keywords |-> <<>>]) @@
    ("create_cost_center" :> [domain |-> "accounting", op |-> "create_cost_center", argc |-> 2, keywords |-> <<>>]) @@
    ("create_budget" :> [domain |-> "accounting", op |-> "create_budget", argc |-> 3, keywords |-> <<>>]) @@
    ("create_fiscal_year" :> [domain |-> "accounting", op |-> "create_fiscal_year", argc |-> 3, keywords |-> <<>>]) @@
    ("get_financial_statements" :> [domain |-> "accounting", op |-> "get_financial_statements", argc |-> 4, keywords |-> <<>>]) @@
    ("get_balance_sheet" :> [domain |-> "accounting", op |-> "get_balance_sheet", argc |-> 4, keywords |-> <<"periodicity">>]) @@
    ("get_profit_and_loss" :> [domain |-> "accounting", op |-> "get_profit_and_loss", argc |-> 4, keywords |-> <<"periodicity">>]) @@
    ("get_income_statement" :> [domain |-> "accounting", op |-> "get_profit_and_loss", argc |-> 4, keywords |-> <<"periodicity">>]) @@
    ("get_cash_flow_statement" :> [domain |-> "accounting", op |-> "get_cash_flow", argc |-> 4, keywords |-> <<"periodicity">>]) @@
    ("get_trial_balance" :> [domain |-> "accounting", op |-> "get_trial_balance", argc |-> 4, keywords |-> <<"periodicity">>]) @@
    ("get_general_ledger" :> [domain |-> "accounting", op |-> "get_general_ledger", argc |-> 5, keywords |-> <<"account", "party">>]) @@
    ("create_purchase_order" :> [domain |-> "purchasing", op |-> "create_purchase_order", argc |-> 3, keywords |-> <<>>]) @@
    ("create_supplier" :> [domain |-> "purchasing", op |-> "create_supplier", argc |-> 2, keywords |-> <<>>]) @@
    ("approve_purchase_order" :> [domain |-> "purchasing", op |-> "approve_purchase_order", argc |-> 1, keywords |-> <<>>]) @@
    ("create_purchase_receipt" :> [domain |-> "purchasing", op |-> "create_purchase_receipt", argc |-> 3, keywords |-> <<>>]) @@
    ("create_purchase_return" :> [domain |-> "purchasing", op |-> "create_purchase_return", argc |-> 2, keywords |-> <<>>]) @@
    ("submit_purchase_receipt" :> [domain |-> "purchasing", op |-> "submit_purchase_receipt", argc |-> 1, keywords |-> <<>>]) @@
    ("get_purchase_receipts_list" :> [domain |-> "purchasing", op |-> "get_purchase_receipts_list", argc |-> 2, keywords |-> <<>>]) @@
    ("create_sales_order" :> [domain |-> "sales", op |-> "create_sales_order", argc |-> 3, keywords |-> <<>>]) @@
    ("create_customer" :> [domain |-> "sales", op |-> "create_customer", argc |-> 2, keywords |-> <<>>]) @@
    ("create_quotation" :> [domain |-> "sales", op |-> "create_quotation", argc |-> 3, keywords |-> <<>>]) @@
    ("create_delivery_note" :> [domain |-> "sales", op |-> "create_delivery_note", argc |-> 3, keywords |-> <<>>]) @@
    ("create_sales_return" :> [domain |-> "sales", op |-> "create_sales_return", argc |-> 2, keywords |-> <<>>]) @@
    ("submit_delivery_note" :> [domain |-> "sales", op |-> "submit_delivery_note", argc |-> 1, keywords |-> <<>>]) @@
    ("get_delivery_notes_list" :> [domain |-> "sales", op |-> "get_delivery_notes_list", argc |-> 2, keywords |-> <<>>]) @@
    ("create_item" :> [domain |-> "inventory", op |-> "create_item", argc |-> 3, keywords |-> <<>>]) @@
    ("create_stock_entry" :> [domain |-> "inventory", op |-> "create_stock_entry", argc |-> 2, keywords |-> <<>>]) @@
    ("get_stock_balance" :> [domain |-> "inventory", op |-> "get_stock_balance", argc |-> 2, keywords |-> <<>>]) @@
    ("create_item_price" :> [domain |-> "inventory", op |-> "create_item_price", argc |-> 3, keywords |-> <<>>]) @@
    ("create_price_list" :> [domain |-> "inventory", op |-> "create_price_list", argc |-> 2, keywords |-> <<>>]) @@
    ("create_batch" :> [domain |-> "inventory", op |-> "create_batch", argc |-> 2, keywords |-> <<>>]) @@
    ("create_serial_no" :> [domain |-> "inventory", op |-> "create_serial_no", argc |-> 2, keywords |-> <<>>]) @@
    ("get_stock_report" :> [domain |-> "inventory", op |-> "get_stock_report", argc |-> 2, keywords |-> <<>>]) @@
    ("get_item_prices" :> [domain |-> "inventory", op |-> "get_item_prices", argc |-> 2, keywords |-> <<>>]) @@
    ("create_employee" :> [domain |-> "hr", op |-> "create_employee", argc |-> 2, keywords |-> <<>>]) @@
    ("mark_attendance" :> [domain |-> "hr", op |-> "mark_attendance", argc |-> 3, keywords |-> <<>>]) @@
    ("create_leave_application" :> [domain |-> "hr", op |-> "create_leave_application", argc |-> 4, keywords |-> <<>>]) @@
    ("create_salary_structure" :> [domain |-> "hr", op |-> "create_salary_structure", argc |-> 3, keywords |-> <<>>]) @@
    ("create_salary_slip" :> [domain |-> "hr", op |-> "create_salary_slip", argc |-> 3, keywords |-> <<>>]) @@
    ("create_job_applicant" :> [domain |-> "hr", op |-> "create_job_applicant", argc |-> 2, keywords |-> <<>>]) @@
    ("approve_leave_application" :> [domain |-> "hr", op |-> "approve_leave_application", argc |-> 1, keywords |-> <<>>]) @@
    ("get_leave_applications_list" :> [domain |-> "hr", op |-> "get_leave_applications_list", argc |-> 2, keywords |-> <<>>]) @@
    ("create_project" :> [domain |-> "projects", op |-> "create_project", argc |-> 1, keywords |-> <<>>]) @@
    ("create_task" :> [domain |-> "projects", op |-> "create_task", argc |-> 3, keywords |-> <<>>]) @@
    ("log_time" :> [domain |-> "projects", op |-> "log_time", argc |-> 5, keywords |-> <<>>]) @@
    ("search_customers" :> [domain |-> "sales", op |-> "search_customers", argc |-> 1, keywords |-> <<>>]) @@
    ("search_suppliers" :> [domain |-> "purchasing", op |-> "search_suppliers", argc |-> 1, keywords |-> <<>>]) @@
    ("search_items" :> [domain |-> "inventory", op |-> "search_items", argc |-> 1, keywords |-> <<>>]) @@
    ("get_sales_orders_list" :> [domain |-> "sales", op |-> "get_sales_orders_list", argc |-> 0, keywords |-> <<>>]) @@
    ("get_purchase_orders_list" :> [domain |-> "purchasing", op |-> "get_purchase_orders_list", argc |-> 0, keywords |-> <<>>]) @@
    ("get_invoices_list" :> [domain |-> "accounting", op |-> "get_invoices_list", argc |-> 1, keywords |-> <<>>]) @@
    ("create_bom" :> [domain |-> "manufacturing", op |-> "create_bom", argc |-> 3, keywords |-> <<>>]) @@
    ("create_work_order" :> [domain |-> "manufacturing", op |-> "create_work_order", argc |-> 4, keywords |-> <<>>]) @@
    ("create_production_plan" :> [domain |-> "manufacturing", op |-> "create_production_plan", argc |-> 3, keywords |-> <<>>]) @@
    ("start_work_order" :> [domain |-> "manufacturing", op |-> "start_work_order", argc |-> 1, keywords |-> <<>>]) @@
    ("complete_work_order" :> [domain |-> "manufacturing", op |-> "complete_work_order", argc |-> 1, keywords |-> <<>>]) @@
    ("create_quality_inspection" :> [domain |-> "manufacturing", op |-> "create_quality_inspection", argc |-> 4, keywords |-> <<>>]) @@
    ("get_work_orders_list" :> [domain |-> "manufacturing", op |-> "get_work_orders_list", argc |-> 1, keywords |-> <<>>]) @@
    ("get_bom_list" :> [domain |-> "manufacturing", op |-> "get_bom_list", argc |-> 1, keywords |-> <<>>]) @@
    ("create_lead" :> [domain |-> "crm", op |-> "create_lead", argc |-> 2, keywords |-> <<>>]) @@
    ("create_opportunity" :> [domain |-> "crm", op |-> "create_opportunity", argc |-> 3, keywords |-> <<>>]) @@
    ("create_campaign" :> [domain |-> "crm", op |-> "create_campaign", argc |-> 1, keywords |-> <<>>]) @@
    ("convert_lead_to_customer" :> [domain |-> "crm", op |-> "convert_lead_to_customer", argc |-> 1, keywords |-> <<>>]) @@
    ("convert_lead_to_opportunity" :> [domain |-> "crm", op |-> "convert_lead_to_opportunity", argc |-> 1, keywords |-> <<>>]) @@
    ("update_opportunity_status" :> [domain |-> "crm", op |-> "update_opportunity_status", argc |-> 2, keywords |-> <<>>]) @@
    ("search_leads" :> [domain |-> "crm", op |-> "search_leads", argc |-> 1, keywords |-> <<>>]) @@
    ("get_leads_list" :> [domain |-> "crm", op |-> "get_leads_list", argc |-> 1, keywords |-> <<>>]) @@
    ("get_opportunities_list" :> [domain |-> "crm", op |-> "get_opportunities_list", argc |-> 1, keywords |-> <<>>]) @@
    ("create_asset" :> [domain |-> "assets", op |-> "create_asset", argc |-> 3, keywords |-> <<>>]) @@
    ("create_asset_category" :> [domain |-> "assets", op |-> "create_asset_category", argc |-> 3, keywords |-> <<>>]) @@
    ("create_asset_maintenance" :> [domain |-> "assets", op |-> "create_asset_maintenance", argc |-> 3, keywords |-> <<>>]) @@
    ("transfer_asset" :> [domain |-> "assets", op |-> "transfer_asset", argc |-> 3, keywords |-> <<>>]) @@
    ("create_asset_depreciation" :> [domain |-> "assets", op |-> "create_asset_depreciation", argc |-> 1, keywords |-> <<>>]) @@
    ("get_assets_list" :> [domain |-> "assets", op |-> "get_assets_list", argc |-> 2, keywords |-> <<>>]) @@
    ("search_assets" :> [domain |-> "assets", op |-> "search_assets", argc |-> 1, keywords |-> <<>>]) @@
    ("create_issue" :> [domain |-> "support", op |-> "create_issue", argc |-> 4, keywords |-> <<>>]) @@
    ("create_service_level_agreement" :> [domain |-> "support", op |-> "create_service_level_agreement", argc |-> 4, keywords |-> <<>>]) @@
    ("create_warranty_claim" :> [domain |-> "support", op |-> "create_warranty_claim", argc |-> 3, keywords |-> <<>>]) @@
    ("update_issue_status" :> [domain |-> "support", op |-> "update_issue_status", argc |-> 2, keywords |-> <<>>]) @@
    ("assign_issue" :> [domain |-> "support", op |-> "assign_issue", argc |-> 2, keywords |-> <<>>]) @@
    ("close_issue" :> [domain |-> "support", op |-> "close_issue", argc |-> 2, keywords |-> <<>>]) @@
    ("get_issues_list" :> [domain |-> "support", op |-> "get_issues_list", argc |-> 3, keywords |-> <<>>]) @@
    ("search_issues" :> [domain |-> "support", op |-> "search_issues", argc |-> 1, keywords |-> <<>>]) @@
    ("create_workflow" :> [domain |-> "utilities", op |-> "create_workflow", argc |-> 4, keywords |-> <<>>]) @@
    ("create_custom_field" :> [domain |-> "utilities", op |-> "create_custom_field", argc |-> 4, keywords |-> <<>>]) @@
    ("backup_database" :> [domain |-> "utilities", op |-> "backup_database", argc |-> 0, keywords |-> <<>>]) @@
    ("execute_report" :> [domain |-> "utilities", op |-> "execute_report", argc |-> 2, keywords |-> <<>>]) @@
    ("bulk_update_documents" :> [domain |-> "utilities", op |-> "bulk_update_documents", argc |-> 3, keywords |-> <<>>]) @@
    ("get_system_settings" :> [domain |-> "utilities", op |-> "get_system_settings", argc |-> 0, keywords |-> <<>>]) @@
    ("get_document_permissions" :> [domain |-> "utilities", op |-> "get_document_permissions", argc |-> 2, keywords |-> <<>>])


\* a wrapper that catches ERPNextError only
handle_operation_error_ERPNextErrorOnly(result) ==
    IF result.tag = "return" THEN result
    ELSE IF result.exc.cls \in ERPNextErrorClasses
    THEN Return(format_error_response(result.exc))
    ELSE result

\* a wrapper with the single branch `except Exception`
handle_operation_error_WrapAll(result) ==
    IF result.tag = "return" THEN result
    ELSE Return(format_error_response(
             ERPNextError(<<"Operation failed: ">> \o result.exc.message)))

\* handle_operation_error.wrapper, applied to what the tool's body did
handle_operation_error(result) ==
    IF result.tag = "return" THEN result
    ELSE IF result.exc.cls \in ERPNextErrorClasses
    THEN Return(format_error_response(result.exc))
    ELSE Return(format_error_response(
             ERPNextError(<<"Operation failed: ">> \o result.exc.message)))

\* the global the tool reads is still None
NoneType(op) == DomainRan(Raise(AttributeError("NoneType", op)), <<>>, <<>>)

\* the class of the object each global holds
DomainClasses ==
    [accounting |-> "AccountingOperations", purchasing |-> "PurchasingOperations",
     sales |-> "SalesOperations", inventory |-> "InventoryOperations",
     hr |-> "HROperations", projects |-> "ProjectsOperations",
     manufacturing |-> "ManufacturingOperations", crm |-> "CRMOperations",
     assets |-> "AssetManagementOperations", support |-> "SupportOperations",
     utilities |-> "UtilitiesOperations"]

\* the tool's domain object does not define the operation
MissingOp(t) ==
    DomainRan(Raise(AttributeError(DomainClasses[ServerTools[t].domain],
                                   ServerTools[t].op)),
              <<>>, <<>>)

Body(t) == DomainObjects[ServerTools[t].domain][ServerTools[t].op]

Defined(t) == ServerTools[t].op \in DOMAIN DomainObjects[ServerTools[t].domain]

ToolsOfKind(k) == {t \in DOMAIN ServerTools : Defined(t) /\ Body(t).kind = k}

\* the keyword arguments a tool passes: its last arguments, by name
Kwargs(t, a) ==
    LET kw == ServerTools[t].keywords
        first == ServerTools[t].argc - Len(kw)
    IN  [k \in {kw[i] : i \in DOMAIN kw} |->
            a[first + (CHOOSE i \in DOMAIN kw : kw[i] = k)]]

ArgValues == {PyNone, "ABC Corp"}
ToolArgs(t) == [1..ServerTools[t].argc -> ArgValues]
ReportTypes == {"Balance Sheet", "INCOME_STATEMENT", "Profit and Loss", "cash flow",
                "Budget"}
InvoiceTypes == {PyNone, "Sales", "purchase"}

\* what the transport returns to a create or submit, to a list or search, and
\* to a report call
ListValues == {<<>>, <<("name" :> "DOC-0001")>>,
               <<("name" :> "DOC-0001"), ("name" :> "DOC-0002")>>}
ReportValues == {[result |-> <<"row">>, columns |-> <<"account">>]}
ServerTexts == {<<"timeout">>, <<"permission">>}

\* how the transport answers the successive calls of one tool invocation
ReplyScripts(values) ==
    [1..MaxCalls -> {[ok |-> TRUE, value |-> v] : v \in values} \cup
                    {[ok |-> FALSE, text |-> t] : t \in ServerTexts}]

\* the tool t was called with arguments a against a transport answering
\* replies, and its body did run
ToolCalled(t, a, replies, run) ==
    /\ tool' = t
    /\ args' = a
    /\ transport' = replies
    /\ requests' = run.wire
    /\ calls' = run.calls
    /\ fault' = run.result
    /\ response' = handle_operation_error(run.result)
    /\ params' = IF run.mapping.ran THEN run.mapping.params ELSE params
    /\ doctype' = IF run.mapping.ran THEN run.mapping.doctype ELSE doctype
    /\ data' = IF run.mapping.ran THEN run.mapping.data ELSE data
    /\ missing' = IF run.mapping.ran THEN run.mapping.missing ELSE missing
    /\ step' = IF run.mapping.ran THEN "mapped_validated" ELSE step
    /\ UNCHANGED <<initialized, call, outcome, hostVars, utilVars, bootVars>>

\* initialize_client: ERPNextClient() connects or raises; the globals are
\* assigned only after it has connected
InitializeClient ==
    /\ tool = "none"
    /\ \E connected \in BOOLEAN :
           /\ initialized' = (initialized \/ connected)
           /\ client' = IF connected THEN ERPNextClient_new ELSE client
    /\ UNCHANGED <<mapVars, clientVars, hostVars, utilVars, config,
                   tool, args, calls, fault, response>>

create_sales_invoice ==
    /\ tool = "none"
    /\ \E customer, items, posting_date, due_date \in Values, replies \in ReplyScripts(RemoteValues) :
           ToolCalled("create_sales_invoice", <<customer, items, posting_date, due_date>>, replies,
               IF initialized
               THEN AccountingOperations_create_sales_invoice(customer, items, posting_date, due_date, replies)
               ELSE NoneType("create_sales_invoice"))
create_purchase_invoice ==
    /\ tool = "none"
    /\ \E supplier, items, posting_date, due_date \in Values, replies \in ReplyScripts(RemoteValues) :
           ToolCalled("create_purchase_invoice", <<supplier, items, posting_date, due_date>>, replies,
               IF initialized
               THEN AccountingOperations_create_purchase_invoice(supplier, items, posting_date, due_date, replies)
               ELSE NoneType("create_purchase_invoice"))
create_payment ==
    /\ tool = "none"
    /\ \E payment_type, party_type, party, paid_amount \in Values, replies \in ReplyScripts(RemoteValues) :
           ToolCalled("create_payment", <<payment_type, party_type, party, paid_amount>>, replies,
               IF initialized
               THEN AccountingOperations_create_payment(payment_type, party_type, party, paid_amount, replies)
               ELSE NoneType("create_payment"))
create_purchase_order ==
    /\ tool = "none"
    /\ \E supplier, items, schedule_date \in Values, replies \in ReplyScripts(RemoteValues) :
           ToolCalled("create_purchase_order", <<supplier, items, schedule_date>>, replies,
               IF initialized
               THEN PurchasingOperations_create_purchase_order(supplier, items, schedule_date, replies)
               ELSE NoneType("create_purchase_order"))
create_supplier ==
    /\ tool = "none"
    /\ \E supplier_name, supplier_type \in Values, replies \in ReplyScripts(RemoteValues) :
           ToolCalled("create_supplier", <<supplier_name, supplier_type>>, replies,
               IF initialized
               THEN PurchasingOperations_create_supplier(supplier_name, supplier_type, replies)
               ELSE NoneType("create_supplier"))
create_sales_order ==
    /\ tool = "none"
    /\ \E customer, items, delivery_date \in Values, replies \in ReplyScripts(RemoteValues) :
           ToolCalled("create_sales_order", <<customer, items, delivery_date>>, replies,
               IF initialized
               THEN SalesOperations_create_sales_order(customer, items, delivery_date, replies)
               ELSE NoneType("create_sales_order"))
create_customer ==
    /\ tool = "none"
    /\ \E customer_name, customer_type \in Values, replies \in ReplyScripts(RemoteValues) :
           ToolCalled("create_customer", <<customer_name, customer_type>>, replies,
               IF initialized
               THEN SalesOperations_create_customer(customer_name, customer_type, replies)
               ELSE NoneType("create_customer"))
create_item ==
    /\ tool = "none"
    /\ \E item_code, item_name, item_group \in Values, replies \in ReplyScripts(RemoteValues) :
           ToolCalled("create_item", <<item_code, item_name, item_group>>, replies,
               IF initialized
               THEN InventoryOperations_create_item(item_code, item_name, item_group, replies)
               ELSE NoneType("create_item"))
create_employee ==
    /\ tool = "none"
    /\ \E employee_name, date_of_joining \in Values, replies \in ReplyScripts(RemoteValues) :
           ToolCalled("create_employee", <<employee_name, date_of_joining>>, replies,
               IF initialized
               THEN HROperations_create_employee(employee_name, date_of_joining, replies)
               ELSE NoneType("create_employee"))
create_project ==
    /\ tool = "none"
    /\ \E project_name \in Values, replies \in ReplyScripts(RemoteValues) :
           ToolCalled("create_project", <<project_name>>, replies,
               IF initialized
               THEN ProjectsOperations_create_project(project_name, replies)
               ELSE NoneType("create_project"))
create_task ==
    /\ tool = "none"
    /\ \E subject, project, priority \in Values, replies \in ReplyScripts(RemoteValues) :
           ToolCalled("create_task", <<subject, project, priority>>, replies,
               IF initialized
               THEN ProjectsOperations_create_task(subject, project, priority, replies)
               ELSE NoneType("create_task"))
create_salary_slip ==
    /\ tool = "none"
    /\ \E employee, start_date, end_date \in Values, replies \in ReplyScripts(RemoteValues) :
           ToolCalled("create_salary_slip", <<employee, start_date, end_date>>, replies,
               IF initialized
               THEN HROperations_create_salary_slip(employee, start_date, end_date)
               ELSE NoneType("create_salary_slip"))
create_service_level_agreement ==
    /\ tool = "none"
    /\ \E service_level, customer, start_date, end_date \in Values, replies \in ReplyScripts(RemoteValues) :
           ToolCalled("create_service_level_agreement",
               <<service_level, customer, start_date, end_date>>, replies,
               IF initialized
               THEN SupportOperations_create_service_level_agreement(
                        service_level, customer, start_date, end_date)
               ELSE NoneType("create_service_level_agreement"))
create_bom ==
    /\ tool = "none"
    /\ \E item, items, quantity \in Values, replies \in ReplyScripts(RemoteValues) :
           ToolCalled("create_bom", <<item, items, quantity>>, replies,
               IF initialized
               THEN ManufacturingOperations_create_bom(item, items, quantity)
               ELSE NoneType("create_bom"))
\* the tools whose operation creates without validating
CallCreateTool ==
    /\ tool = "none"
    /\ \E t \in ToolsOfKind("create") :
       \E a \in ToolArgs(t), replies \in ReplyScripts(RemoteValues) :
           ToolCalled(t, a, replies,
               IF initialized THEN CreateOp(Body(t), a, replies)
               ELSE NoneType(ServerTools[t].op))

\* approve_sales_invoice, approve_purchase_order
CallSubmitTool ==
    /\ tool = "none"
    /\ \E t \in ToolsOfKind("submit") :
       \E a \in ToolArgs(t), replies \in ReplyScripts(RemoteValues) :
           ToolCalled(t, a, replies,
               IF initialized THEN SubmitOp(Body(t), a, replies)
               ELSE NoneType(ServerTools[t].op))

\* the tools whose operation lists documents
CallListTool ==
    /\ tool = "none"
    /\ \E t \in ToolsOfKind("list") :
       \E a \in ToolArgs(t), replies \in ReplyScripts(ListValues) :
           ToolCalled(t, a, replies,
               IF initialized THEN ListOp(Body(t), a, replies)
               ELSE NoneType(ServerTools[t].op))

\* search_customers, search_suppliers, search_items
CallSearchTool ==
    /\ tool = "none"
    /\ \E t \in ToolsOfKind("search") :
       \E a \in ToolArgs(t), replies \in ReplyScripts(ListValues) :
           ToolCalled(t, a, replies,
               IF initialized THEN SearchOp(Body(t), a, replies)
               ELSE NoneType(ServerTools[t].op))

\* get_balance_sheet, get_profit_and_loss, get_income_statement,
\* get_cash_flow_statement, get_trial_balance, get_general_ledger
CallReportTool ==
    /\ tool = "none"
    /\ \E t \in ToolsOfKind("report") :
       \E a \in ToolArgs(t), replies \in ReplyScripts(ReportValues) :
           ToolCalled(t, a, replies,
               IF initialized
               THEN ReportOp(Body(t), a[1], a[2], a[3], Kwargs(t, a), replies)
               ELSE NoneType(ServerTools[t].op))

\* the tools whose operation asks the client for a method it does not define;
\* the generic execute_report tool is one of them
CallUndefinedTool ==
    /\ tool = "none"
    /\ \E t \in ToolsOfKind("undefined") :
       \E a \in ToolArgs(t), replies \in ReplyScripts(RemoteValues) :
           ToolCalled(t, a, replies,
               IF initialized THEN UndefinedOp(Body(t))
               ELSE NoneType(ServerTools[t].op))

\* create_purchase_return, submit_purchase_receipt, get_purchase_receipts_list
CallMissingTool ==
    /\ tool = "none"
    /\ \E t \in {u \in DOMAIN ServerTools : ~Defined(u)} :
       \E a \in ToolArgs(t), replies \in ReplyScripts(RemoteValues) :
           ToolCalled(t, a, replies,
               IF initialized THEN MissingOp(t)
               ELSE NoneType(ServerTools[t].op))

get_financial_statements ==
    /\ tool = "none"
    /\ \E company \in ArgValues, report_type \in ReportTypes,
          from_date \in {"2024-01-01"}, to_date \in {"2024-12-31"},
          replies \in ReplyScripts(ReportValues) :
           ToolCalled("get_financial_statements",
               <<company, report_type, from_date, to_date>>, replies,
               IF initialized
               THEN AccountingOperations_get_financial_statements(
                        company, report_type, from_date, to_date, replies)
               ELSE NoneType("get_financial_statements"))

get_invoices_list ==
    /\ tool = "none"
    /\ \E invoice_type \in InvoiceTypes, replies \in ReplyScripts(ListValues) :
           ToolCalled("get_invoices_list", <<invoice_type>>, replies,
               IF initialized
               THEN AccountingOperations_get_invoices_list(invoice_type, replies)
               ELSE NoneType("get_invoices_list"))

log_time ==
    /\ tool = "none"
    /\ \E employee \in ArgValues, hours \in {"8"}, activity_type \in ArgValues,
          from_time \in {PyNone}, to_time \in {PyNone},
          replies \in ReplyScripts(RemoteValues) :
           ToolCalled("log_time",
               <<employee, hours, activity_type, from_time, to_time>>, replies,
               IF initialized
               THEN ProjectsOperations_log_time(employee, hours, activity_type,
                                                from_time, to_time, replies)
               ELSE NoneType("log_time"))

get_stock_balance ==
    /\ tool = "none"
    /\ \E item_code \in ArgValues, warehouse \in ArgValues,
          replies \in ReplyScripts(RemoteValues) :
           ToolCalled("get_stock_balance", <<item_code, warehouse>>, replies,
               IF initialized
               THEN InventoryOperations_get_stock_balance(item_code, warehouse)
               ELSE NoneType("get_stock_balance"))

bulk_update_documents ==
    /\ tool = "none"
    /\ \E dt \in ClientDocTypes, filters \in {("status" :> "Open")},
          update_fields \in UpdateRecords, replies \in ReplyScripts(ListValues) :
           ToolCalled("bulk_update_documents", <<dt, filters, update_fields>>, replies,
               IF initialized
               THEN UtilitiesOperations_bulk_update_documents(
                        dt, filters, update_fields, replies)
               ELSE NoneType("bulk_update_documents"))

\* the process starts with every global None
Init ==
    /\ IdleMapping
    /\ IdleClient
    /\ IdleServer
    /\ stored = EmptyDict
    /\ threads = <<>>
    /\ IdleLookup
    /\ config \in {ERPNextConfig(flag) : flag \in BOOLEAN}
    /\ client = NoClient
    /\ initialized = FALSE

Next ==
    \/ InitializeClient
    \/ create_sales_invoice
    \/ create_purchase_invoice
    \/ create_payment
    \/ create_purchase_order
    \/ create_supplier
    \/ create_sales_order
    \/ create_customer
    \/ create_item
    \/ create_employee
    \/ create_project
    \/ create_task
    \/ create_salary_slip
    \/ create_service_level_agreement
    \/ create_bom
    \/ CallCreateTool
    \/ CallSubmitTool
    \/ CallListTool
    \/ CallSearchTool
    \/ CallReportTool
    \/ CallUndefinedTool
    \/ CallMissingTool
    \/ get_financial_statements
    \/ get_invoices_list
    \/ log_time
    \/ get_stock_balance
    \/ bulk_update_documents

Spec == Init /\ [][Next]_vars

-----------------------------------------------------------------------------
(* The report tools over a Remote Client double, as the tests build        *)
(* AccountingOperations: execute_report returns or raises what the double  *)
(* is told to                                                              *)

DoubleTexts == {<<"API Error">>, <<"permission">>}

\* what the double's execute_report does
DoubleOutcomes ==
    {Return(v) : v \in ReportValues} \cup
    {Raise(e) : e \in UNION {{ERPNextError(t), AuthenticationError(t),
                               ValidationError(t), NotFoundError(t),
                               PermissionError(t), PyException("Exception", t)} :
                              t \in DoubleTexts}}

\* accounting holds AccountingOperations(mock_client)
InitDouble == IdleMapping /\ IdleClient /\ IdleServer /\ IdleHost /\ initialized = TRUE

\* get_balance_sheet, get_profit_and_loss, get_income_statement,
\* get_cash_flow_statement, get_trial_balance, get_general_ledger
CallReportToolOverDouble ==
    /\ tool = "none"
    /\ \E t \in ToolsOfKind("report") :
       \E a \in ToolArgs(t), did \in DoubleOutcomes :
           LET filters == DictArg(ReportFilters(Body(t), a[1], a[2], a[3], Kwargs(t, a)))
               run == ReportOpOver(Body(t), filters, Ran(did, <<>>))
           IN  /\ call' = [prim |-> "execute_report",
                           report_name |-> Body(t).report_name, filters |-> filters]
               /\ outcome' = did
               /\ tool' = t
               /\ args' = a
               /\ calls' = run.calls
               /\ fault' = run.result
               /\ response' = handle_operation_error(run.result)
    /\ UNCHANGED <<mapVars, hostVars, utilVars, bootVars, initialized, transport, requests>>

NextDouble == CallReportToolOverDouble

SpecDouble == InitDouble /\ [][NextDouble]_vars

-----------------------------------------------------------------------------
(* get_doctype_for_operation applied to operation names *)

\* the names of the table, the names of the tools (many are not in the
\* table) and names nothing registers
OperationNames ==
    DOMAIN BUSINESS_OPERATIONS \cup DOMAIN ServerTools \cup
    {"invalid_operation", "CREATE_CUSTOMER", ""}

InitLookup ==
    /\ IdleMapping
    /\ IdleClient
    /\ IdleServer
    /\ initialized = FALSE
    /\ stored = EmptyDict
    /\ threads = <<>>
    /\ IdleBoot
    /\ operation \in OperationNames
    /\ lookup = [tag |-> "none"]

GetDoctypeForOperation ==
    /\ lookup.tag = "none"
    /\ lookup' = get_doctype_for_operation(operation)
    /\ UNCHANGED <<mapVars, clientVars, serverVars, hostVars, operation, bootVars>>

NextLookup == GetDoctypeForOperation

SpecLookup == InitLookup /\ [][NextLookup]_vars

-----------------------------------------------------------------------------
(* Claims about the mapping layer (checked under SpecMapping) *)

Validated == step \in {"validated", "mapped_validated"}

\* the position of field f in the sequence s (0 when absent)
IndexOf(s, f) == IF \E i \in DOMAIN s : s[i] = f
                 THEN CHOOSE i \in DOMAIN s : s[i] = f ELSE 0

\* the Required-Field Table's entry as the claims read it
DeclaredRequired(dt) ==
    IF dt \in DOMAIN required_fields THEN required_fields[dt] ELSE <<>>

AbsentOrNull(f) == f \notin DOMAIN data \/ data[f] = PyNone

\* C3: the Validator returns exactly the required fields of the DocumentType
\* that are absent from the record or null in it, in the table's declared
\* order: every such field is reported (no false negative), nothing else is
\* (no false positive), no field twice; nothing for a DocumentType outside the
\* table; the whole list for an empty record; [customer_type] for
\* {customer_name} against Customer.
C3_ValidatorExact ==
    Validated =>
        LET req == DeclaredRequired(doctype) IN
        /\ \A i \in DOMAIN req : AbsentOrNull(req[i]) =>
               \E j \in DOMAIN missing : missing[j] = req[i]
        /\ \A j \in DOMAIN missing :
               IndexOf(req, missing[j]) # 0 /\ AbsentOrNull(missing[j])
        /\ \A i, j \in DOMAIN missing :
               i < j => IndexOf(req, missing[i]) < IndexOf(req, missing[j])
        /\ doctype \notin DOMAIN required_fields => missing = <<>>
        /\ data = <<>> => missing = req
        /\ (doctype = DocTypes.CUSTOMER /\ DOMAIN data = {"customer_name"}
              /\ data["customer_name"] # PyNone) => missing = <<"customer_type">>

\* C3 witness: a Sales Invoice record with customer set, posting_date null
\* and items absent was validated, and both are reported in table order
C3_Witness ==
    /\ step = "validated"
    /\ doctype = DocTypes.SALES_INVOICE
    /\ data = ("customer" :> "ABC Corp") @@ ("posting_date" :> PyNone)
    /\ missing = <<"posting_date", "items">>

\* the Field Mapping Table's target for a key, as the claims read it
DeclaredTarget(k) ==
    IF k \in DOMAIN FIELD_MAPPINGS THEN FIELD_MAPPINGS[k] ELSE k

\* the last item of params whose key lands on target key t
LastSource(t) ==
    CHOOSE i \in DOMAIN params :
        /\ DeclaredTarget(params[i][1]) = t
        /\ \A j \in DOMAIN params : DeclaredTarget(params[j][1]) = t => j <= i

\* C4: the Mapper's result has one key per input key, renamed through the
\* Field Mapping Table when the key is in it and verbatim otherwise (plus
\* doctype), and the value under each such key is the unmodified value of the
\* input key it came from (the one processed last when several land on it);
\* {customer_name, invoice_date, grand_total} against Sales Invoice gives
\* {customer_name, posting_date, grand_total, doctype}.
C4_MapperRenamesKeysOnly ==
    step = "mapped" =>
        /\ DOMAIN data =
              {DeclaredTarget(params[i][1]) : i \in DOMAIN params} \cup {"doctype"}
        /\ \A t \in DOMAIN data \ {"doctype"} : data[t] = params[LastSource(t)][2]
        /\ ({params[i][1] : i \in DOMAIN params}
               = {"customer_name", "invoice_date", "grand_total"}
             /\ doctype = DocTypes.SALES_INVOICE) =>
              /\ DOMAIN data =
                    {"customer_name", "posting_date", "grand_total", "doctype"}
              /\ data["customer_name"] = AsDict(params)["customer_name"]
              /\ data["posting_date"] = AsDict(params)["invoice_date"]
              /\ data["grand_total"] = AsDict(params)["grand_total"]
              /\ data["doctype"] = DocTypes.SALES_INVOICE

\* C4 witness: the scenario record, holding a string and a list with a
\* nested mapping, has been mapped against Sales Invoice
C4_Witness ==
    /\ step = "mapped"
    /\ doctype = DocTypes.SALES_INVOICE
    /\ params = << <<"customer_name", "ABC Corp">>,
                   <<"invoice_date", "[{'item_code': 'X', 'qty': 1}]">>,
                   <<"grand_total", "ABC Corp">> >>
    /\ "invoice_date" \notin DOMAIN data
    /\ data["posting_date"] = "[{'item_code': 'X', 'qty': 1}]"

\* C5: the Mapper's result carries doctype equal to the DocumentType
\* argument, also when the input record has its own doctype key
C5_DoctypeInjected ==
    step = "mapped" => "doctype" \in DOMAIN data /\ data["doctype"] = doctype

\* C5 witness: a record whose own doctype key holds another value was mapped
C5_Witness ==
    /\ step = "mapped"
    /\ \E i \in DOMAIN params : params[i][1] = "doctype" /\ params[i][2] # doctype
    /\ data["doctype"] = doctype

-----------------------------------------------------------------------------
(* Claims about ERPNextClient (checked under SpecClient) *)

Primitives == {"create_document", "get_document", "update_document",
               "delete_document", "submit_document", "cancel_document",
               "get_list", "search_documents", "call_api"}

\* the words whose lower-cased form holds the substrings of each rule
AuthWords == {"Authentication", "login"}
InvalidWords == {"validation", "INVALID"}
MissingWords == {"not found", "does not exist"}
DeniedWords == {"permission", "Not Allowed"}

HasWord(text, words) == \E i \in DOMAIN text : text[i] \in words

\* the class the stated rules choose for an exception text, by first match
StatedClass(text) ==
    IF HasWord(text, AuthWords) THEN "AuthenticationError"
    ELSE IF HasWord(text, InvalidWords) THEN "ValidationError"
    ELSE IF HasWord(text, MissingWords) THEN "NotFoundError"
    ELSE IF HasWord(text, DeniedWords) THEN "PermissionError"
    ELSE "ERPNextError"

StatedCode(cls) ==
    CASE cls = "AuthenticationError" -> "AUTHENTICATION_ERROR"
      [] cls = "ValidationError" -> "VALIDATION_ERROR"
      [] cls = "NotFoundError" -> "NOT_FOUND_ERROR"
      [] cls = "PermissionError" -> "PERMISSION_ERROR"
      [] OTHER -> "ERPNEXT_ERROR"

\* text occurs in message as a contiguous run
Infix(text, message) ==
    \E i \in 0..(Len(message) - Len(text)) :
        SubSeq(message, i + 1, i + Len(text)) = text

\* the transport raised during the invocation: its last answer is an exception
TransportRaised ==
    /\ call.prim \in Primitives
    /\ transport # <<>>
    /\ ~transport[Len(transport)].ok

\* C9: an exception of the transport inside create_document, get_document,
\* update_document, delete_document, submit_document, cancel_document,
\* get_list, search_documents or call_api reaches the caller as one error of
\* the taxonomy, of the class the first matching rule chooses in the order
\* authentication, validation, not found, permission, generic; its message
\* contains the transport's text.
C9_TransportErrorClassified ==
    TransportRaised =>
        LET text == transport[Len(transport)].text IN
        /\ outcome.tag = "raise"
        /\ outcome.exc.cls = StatedClass(text)
        /\ outcome.exc.error_code = StatedCode(StatedClass(text))
        /\ Infix(text, outcome.exc.message)

\* update_document fetched the document, the update then raised with a text
\* that matches both the not-found and the permission rule
C9_Witness ==
    /\ call.prim = "update_document"
    /\ Len(transport) = 2
    /\ transport[1].ok
    /\ ~transport[2].ok
    /\ transport[2].text = <<"Not Allowed", "does not exist">>
    /\ outcome.tag = "raise"
    /\ outcome.exc.cls = "NotFoundError"

PrimaryMethod == "frappe.desk.query_report.run"
FallbackMethod == "frappe.desk.reportview.get_data"

ReportRan == call.prim = "execute_report"

\* the value returned is the placeholder
IsPlaceholder(v) == "error" \in DOMAIN v /\ v.error = TRUE

\* C7: execute_report never raises; when neither the primary nor the fallback
\* attempt yields a value it returns error = true, result = [], columns = [],
\* the requested report_name and the filters passed in.
C7_ReportNeverRaises ==
    ReportRan =>
        /\ outcome.tag = "return"
        /\ (\A i \in DOMAIN transport : ~transport[i].ok) =>
               /\ outcome.value.error = TRUE
               /\ outcome.value.result = <<>>
               /\ outcome.value.columns = <<>>
               /\ outcome.value.report_name = call.report_name
               /\ outcome.value.filters = call.filters

\* both remote calls were made with filters given, and both raised
C7_Witness ==
    /\ ReportRan
    /\ call.filters = DictArg("company" :> "ACME")
    /\ Len(requests) = 2
    /\ ~transport[1].ok
    /\ ~transport[2].ok
    /\ IsPlaceholder(outcome.value)
    /\ outcome.value.filters = call.filters

\* C6: execute_report issues the primary call first; issues the fallback call
\* if and only if the primary raised; returns the placeholder only after both
\* calls were attempted and both raised; makes one call when the primary
\* succeeds. For every report name and filters argument, none included.
C6_PrimaryThenFallback ==
    ReportRan =>
        /\ Len(requests) >= 1
        /\ requests[1].target = PrimaryMethod
        /\ (Len(requests) >= 2 /\ requests[2].target = FallbackMethod)
               <=> ~transport[1].ok
        /\ (outcome.tag = "return" /\ IsPlaceholder(outcome.value)) =>
               /\ Len(requests) = 2
               /\ ~transport[1].ok
               /\ ~transport[2].ok
        /\ transport[1].ok => Len(requests) = 1

-----------------------------------------------------------------------------
(* Claims about the tools (checked under Spec) *)

ValidatedCreateTools ==
    {"create_sales_invoice", "create_purchase_invoice", "create_payment",
     "create_sales_order", "create_purchase_order", "create_customer",
     "create_supplier", "create_item", "create_employee", "create_project",
     "create_task"}

\* the required fields of the DocumentType that the mapped record lacks or
\* holds as null, in the table's declared order
StatedMissing == SelectSeq(DeclaredRequired(doctype), AbsentOrNull)

\* the mapped record of a validating create operation failed validation
ValidationFailed ==
    /\ tool \in ValidatedCreateTools
    /\ step = "mapped_validated"
    /\ StatedMissing # <<>>

\* C1: when the mapped record of create_sales_invoice, create_purchase_invoice,
\* create_payment, create_sales_order, create_purchase_order, create_customer,
\* create_supplier, create_item, create_employee, create_project or
\* create_task fails validation, the Remote Client is not invoked at all and
\* the tool returns an error envelope with error_code VALIDATION_ERROR whose
\* message names every missing field, joined by ", ", in the declared order.
C1_ValidationFailureMakesNoRemoteCall ==
    ValidationFailed =>
        /\ calls = <<>>
        /\ requests = <<>>
        /\ response.tag = "return"
        /\ response.value.success = FALSE
        /\ response.value.error_code = "VALIDATION_ERROR"
        /\ LET named == Tail(response.value.message)
               n == Len(StatedMissing)
           IN  /\ Head(response.value.message) = "Missing required fields: "
               /\ Len(named) = 2 * n - 1
               /\ \A i \in 1..n : named[2 * i - 1] = StatedMissing[i]
               /\ \A i \in 1..(n - 1) : named[2 * i] = ", "

\* create_sales_invoice without posting_date and with null items: two fields
\* are missing, and the table lists them in the order opposite to the record's
C1_Witness ==
    /\ tool = "create_sales_invoice"
    /\ initialized
    /\ args = <<"ABC Corp", PyNone, PyNone, PyNone>>
    /\ StatedMissing = <<"posting_date", "items">>
    /\ calls = <<>>
    /\ response.tag = "return"
    /\ response.value.error_code = "VALIDATION_ERROR"
    /\ response.value.message =
           <<"Missing required fields: ", "posting_date", ", ", "items">>

EnvelopeKeys == {"success", "error_code", "message", "details"}

ErrorCodes == {"ERPNEXT_ERROR", "AUTHENTICATION_ERROR", "VALIDATION_ERROR",
               "NOT_FOUND_ERROR", "PERMISSION_ERROR"}

\* C2: in every state of the server, before initialize_client has run
\* included, a tool call returns; whatever exception was raised below the
\* tool, what it returns is an error envelope (success false, an error_code,
\* a message, details); no exception leaves a tool.
C2_ToolsAlwaysReturnEnvelope ==
    tool # "none" =>
        /\ response.tag = "return"
        /\ fault.tag = "raise" =>
               /\ DOMAIN response.value = EnvelopeKeys
               /\ response.value.success = FALSE
               /\ response.value.error_code \in ErrorCodes
               /\ Infix(fault.exc.message, response.value.message)

\* a tool called before initialize_client: the global is None, the
\* AttributeError becomes an error envelope
C2_Witness ==
    /\ ~initialized
    /\ tool = "get_stock_balance"
    /\ fault.tag = "raise"
    /\ fault.exc.cls = "AttributeError"
    /\ response.tag = "return"
    /\ response.value.success = FALSE
    /\ response.value.error_code = "ERPNEXT_ERROR"

ReportTools ==
    {"get_balance_sheet", "get_profit_and_loss", "get_income_statement",
     "get_cash_flow_statement", "get_trial_balance", "get_general_ledger",
     "get_financial_statements", "execute_report"}

\* the transport raises on the primary and on the fallback report call
BothReportCallsFail == ~transport[1].ok /\ ~transport[2].ok

\* a report tool was called on the initialized server, for a report it knows
ReportToolCalled ==
    /\ tool \in ReportTools
    /\ initialized
    /\ tool = "get_financial_statements" => args[2] # "Budget"

\* C8: for get_balance_sheet, get_profit_and_loss, get_income_statement,
\* get_cash_flow_statement, get_trial_balance, get_general_ledger,
\* get_financial_statements and the generic execute_report tool, when both the
\* primary and the fallback remote report call fail the tool returns a success
\* envelope whose data carries error = true and empty result and columns.
C8_ReportToolsReturnPlaceholder ==
    (ReportToolCalled /\ BothReportCallsFail) =>
        /\ response.tag = "return"
        /\ response.value.success = TRUE
        /\ response.value.data.error = TRUE
        /\ response.value.data.result = <<>>
        /\ response.value.data.columns = <<>>

\* the call was not ended by the operation's own validation
PassedLocalValidation ==
    /\ tool # "none"
    /\ initialized
    /\ ~(/\ fault.tag = "raise"
         /\ fault.exc.cls = "ValidationError"
         /\ calls = <<>>)

\* C10: every Domain Operation invocation that passes local validation
\* invokes exactly one primitive of the Remote Client before its envelope is
\* returned, never zero and never more than one, for every tool.
C10_ExactlyOnePrimitive ==
    PassedLocalValidation => Len(calls) = 1

\* the method surface ERPNextClient implements
ClientSurface == Primitives \cup {"execute_report"}

\* the operation ended on a method the client object does not have
EndedOnUndefinedMethod ==
    /\ fault.tag = "raise"
    /\ fault.exc.cls = "AttributeError"
    /\ fault.exc.message[2] = "ERPNextClient"

\* C11: every remote call a Domain Operation issues names a method of the
\* surface ERPNextClient implements, and no operation ends in an error because
\* it asked the client for a method the client does not provide.
C11_OnlyClientSurface ==
    (tool # "none" /\ initialized) =>
        /\ \A i \in DOMAIN calls : calls[i].prim \in ClientSurface
        /\ ~EndedOnUndefinedMethod

\* the fetch update_document starts with
FetchRequest == [method |-> "get_doc", target |-> call.doctype, name |-> call.name]

\* the record update_document submits
Submitted == requests[2].payload

\* C12: update_document first fetches the existing document; only if the
\* fetch succeeds it submits exactly one record, the fetched document with
\* each key of data set to data's value and every other field unchanged; if
\* the fetch fails no update is submitted.
C12_UpdateFetchesThenMerges ==
    call.prim = "update_document" =>
        /\ requests[1] = FetchRequest
        /\ IF transport[1].ok
           THEN /\ Len(requests) = 2
                /\ requests[2].method = "update"
                /\ DOMAIN Submitted = DOMAIN transport[1].value \cup DOMAIN call.data
                /\ \A k \in DOMAIN Submitted :
                       Submitted[k] = IF k \in DOMAIN call.data THEN call.data[k]
                                      ELSE transport[1].value[k]
           ELSE /\ Len(requests) = 1
                /\ outcome.tag = "raise"

\* an update that overwrites one fetched field, adds one and keeps one
C12_Witness ==
    /\ call.prim = "update_document"
    /\ transport[1].ok
    /\ Len(requests) = 2
    /\ call.data = ("status" :> "Closed") @@ ("owner" :> "ABC Corp")
    /\ transport[1].value.status = "Open"
    /\ Submitted = ("name" :> "DOC-0001") @@ ("status" :> "Closed") @@
                   ("priority" :> "Low") @@ ("owner" :> "ABC Corp")

\* both calls returned, and they changed disjoint fields
BothReturnedDisjoint(g, h) ==
    /\ g # h
    /\ threads[g].pc = "returned"
    /\ threads[h].pc = "returned"
    /\ DOMAIN threads[g].data \cap DOMAIN threads[h].data = {}

\* C13: for any two update_document calls that run concurrently on the same
\* remote document and change disjoint fields, under every interleaving of
\* their fetch and re-submit steps the stored document after both completed
\* carries both callers' field values.
C13_NoLostUpdate ==
    DOMAIN threads = Hosts =>
        \A g, h \in Hosts :
            BothReturnedDisjoint(g, h) =>
                \A k \in DOMAIN threads[g].data :
                    k \in DOMAIN stored /\ stored[k] = threads[g].data[k]

-----------------------------------------------------------------------------
(* Further claims about the mapping layer (checked under SpecMapping) *)

\* the orderings of the key/value pairs of a record
Reorderings(items) ==
    {[i \in DOMAIN items |-> items[pi[i]]] :
        pi \in {f \in [DOMAIN items -> DOMAIN items] :
                  \A i, j \in DOMAIN items : i # j => f[i] # f[j]}}

\* C14: the Mapper is order-independent: any two orderings of the same set of
\* key/value pairs produce the same MappedRecord, for every BusinessRecord
\* and DocumentType.
C14_MapperOrderIndependent ==
    step = "mapped" =>
        \A reordered \in Reorderings(params) :
            map_business_params_to_doctype_fields(reordered, doctype) = data

\* the keys of the BusinessRecord other than doctype
SuppliedKeys == {params[i][1] : i \in DOMAIN params} \ {"doctype"}

\* C15: the Mapper never drops caller data: every value supplied under a key
\* other than doctype appears in the MappedRecord under the key's target, and
\* the MappedRecord has exactly one key per distinct input key plus doctype
\* (no two distinct business keys collide onto one target key).
C15_MapperKeepsEveryValue ==
    step = "mapped" =>
        /\ \A i \in DOMAIN params :
               params[i][1] # "doctype" =>
                   data[DeclaredTarget(params[i][1])] = params[i][2]
        /\ Cardinality(DOMAIN data \ {"doctype"}) = Cardinality(SuppliedKeys)

\* C17: the Validator treats empty sentinels as missing: a required field
\* present in the record with an empty string or an empty list is reported in
\* the missing list exactly as a null or absent field is.
C17_EmptyValuesReportedMissing ==
    Validated =>
        \A i \in DOMAIN DeclaredRequired(doctype) :
            LET field == DeclaredRequired(doctype)[i]
            IN  (field \in DOMAIN data /\ data[field] \in EmptyValues) =>
                    IndexOf(missing, field) # 0

\* the record is what one application of the Mapper to params gives
MappedOnce(record) ==
    /\ DOMAIN record =
          {DeclaredTarget(params[i][1]) : i \in DOMAIN params} \cup {"doctype"}
    /\ \A t \in DOMAIN record \ {"doctype"} : record[t] = params[LastSource(t)][2]
    /\ record["doctype"] = doctype

\* C16: the Mapper is idempotent on key renaming: applied to its own result
\* with the same DocumentType it returns the same keys with the same values,
\* and no target name of the Field Mapping Table is itself a source name that
\* maps to a different target.
C16_MapperIdempotent ==
    /\ step = "remapped" => MappedOnce(data)
    /\ \A k \in DOMAIN FIELD_MAPPINGS :
           DeclaredTarget(FIELD_MAPPINGS[k]) = FIELD_MAPPINGS[k]

\* a record with a renamed key, a verbatim key and its own doctype key was
\* mapped twice
C16_Witness ==
    /\ step = "remapped"
    /\ doctype = DocTypes.SALES_INVOICE
    /\ params = << <<"invoice_date", "ABC Corp">>, <<"doctype", "ABC Corp">>,
                   <<"customer", PyNone>> >>
    /\ data = ("posting_date" :> "ABC Corp") @@ ("customer" :> PyNone) @@
              ("doctype" :> DocTypes.SALES_INVOICE)

-----------------------------------------------------------------------------
(* Further claims about the tools (checked under Spec) *)

SuccessEnvelope(v) ==
    /\ DOMAIN v = {"success", "message", "data"}
    /\ v.success = TRUE

ErrorEnvelope(v) ==
    /\ DOMAIN v = {"success", "error_code", "message", "details"}
    /\ v.success = FALSE
    /\ v.error_code \in ErrorCodes
    /\ fault.tag = "raise"
    /\ fault.exc.cls \in ERPNextErrorClasses => v.details = fault.exc.details
    /\ fault.exc.cls \notin ERPNextErrorClasses => v.details = EmptyDict

\* C18: every value a tool returns has one of exactly two shapes: a success
\* envelope (success true, a message, data) or an error envelope (success
\* false, an error_code, a message and a details mapping, empty when the
\* error carried none); none mixes the two or lacks the success flag.
C18_TwoEnvelopeShapes ==
    tool # "none" =>
        /\ response.tag = "return"
        /\ SuccessEnvelope(response.value) \/ ErrorEnvelope(response.value)

\* a tool that returned a success envelope around the created document
C18_Witness ==
    /\ tool = "create_customer"
    /\ response.tag = "return"
    /\ response.value.success = TRUE
    /\ response.value.message = "Customer created successfully"
    /\ response.value.data \in RemoteValues

\* the operation each report_type of the inputs names, as the claim reads it
StatedOperation(report_type) ==
    CASE report_type = "Balance Sheet" -> "get_balance_sheet"
      [] report_type \in {"INCOME_STATEMENT", "Profit and Loss"} -> "get_profit_and_loss"
      [] report_type = "cash flow" -> "get_cash_flow"
      [] OTHER -> "unsupported"

\* what the operation op, called once with (company, from_date, to_date) and
\* no further argument, asks of the Remote Client
StatedReportCall(op, company, from_date, to_date) ==
    [prim |-> "execute_report",
     report_name |-> AccountingOperations[op].report_name,
     filters |-> DictArg(("company" :> company) @@ ("from_date" :> from_date) @@
                         ("to_date" :> to_date) @@ AccountingOperations[op].defaults)]

\* C19: get_financial_statements dispatches on report_type whatever its
\* case: balance-sheet names call get_balance_sheet, profit-and-loss and
\* income-statement names call get_profit_and_loss, cash-flow names call
\* get_cash_flow, each exactly once with (company, from_date, to_date); every
\* other report_type raises a ValidationError naming "Unsupported report
\* type" and the supported types, with no call to the Remote Client.
C19_FinancialStatementsDispatch ==
    (tool = "get_financial_statements" /\ initialized) =>
        LET op == StatedOperation(args[2])
        IN  IF op = "unsupported"
            THEN /\ calls = <<>>
                 /\ requests = <<>>
                 /\ fault.tag = "raise"
                 /\ fault.exc.cls = "ValidationError"
                 /\ fault.exc.message[1] = "Unsupported report type: "
                 /\ fault.exc.message[3] =
                        ". Supported types: Balance Sheet, Profit and Loss, Cash Flow"
            ELSE /\ calls = <<StatedReportCall(op, args[1], args[3], args[4])>>
                 /\ fault.tag = "return"
                 /\ fault.value.message = AccountingOperations[op].message

\* an upper-case income-statement name reached get_profit_and_loss
C19_Witness ==
    /\ tool = "get_financial_statements"
    /\ initialized
    /\ args[2] = "INCOME_STATEMENT"
    /\ Len(calls) = 1
    /\ calls[1].report_name = "Profit and Loss Statement"
    /\ response.value.success = TRUE

-----------------------------------------------------------------------------
(* Claims about the report operations over a client double (SpecDouble) *)

\* the Remote Client's execute_report raised an ERPNextError
ReportRaisedERPNextError ==
    /\ tool \in ToolsOfKind("report")
    /\ call.prim = "execute_report"
    /\ outcome.tag = "raise"
    /\ outcome.exc.cls \in ERPNextErrorClasses

\* C20: when the Remote Client's execute_report raises an ERPNextError, each
\* accounting report operation (balance sheet, profit and loss, cash flow,
\* trial balance, general ledger) propagates that error instead of returning
\* a success envelope, and the tool returns an error envelope carrying that
\* error's error_code and message.
C20_ReportErrorPropagates ==
    ReportRaisedERPNextError =>
        /\ fault = outcome
        /\ response.tag = "return"
        /\ response.value.success = FALSE
        /\ response.value.error_code = StatedCode(outcome.exc.cls)
        /\ response.value.message = outcome.exc.message

\* the general ledger over a double raising NotFoundError("API Error")
C20_Witness ==
    /\ tool = "get_general_ledger"
    /\ outcome.tag = "raise"
    /\ outcome.exc.cls = "NotFoundError"
    /\ outcome.exc.message = <<"API Error">>
    /\ response.value.error_code = "NOT_FOUND_ERROR"
    /\ response.value.message = <<"API Error">>

-----------------------------------------------------------------------------
(* Claims about the report filters (checked under Spec) *)

\* the fixed report name of each report tool, as the claim reads it
StatedReportName(t) ==
    CASE t = "get_balance_sheet" -> "Balance Sheet"
      [] t \in {"get_profit_and_loss", "get_income_statement"} ->
             "Profit and Loss Statement"
      [] t = "get_cash_flow_statement" -> "Cash Flow"
      [] t = "get_trial_balance" -> "Trial Balance"
      [] t = "get_general_ledger" -> "General Ledger"

\* the optional filters sent when the caller gives none
StatedDefaults(t) ==
    CASE t = "get_general_ledger" ->
             ("group_by" :> "") @@ ("account" :> "") @@ ("party_type" :> "") @@
             ("party" :> "")
      [] t = "get_trial_balance" -> ("periodicity" :> "Monthly")
      [] OTHER -> ("periodicity" :> "Monthly") @@ ("filter_based_on" :> "Date Range")

\* the optional filters the caller of the tool gave a value for: periodicity
\* always reaches the operation with a value; account and party are given
\* unless left at None
StatedSupplied(t, a) ==
    IF t = "get_general_ledger"
    THEN [k \in {key \in {"account", "party"} :
                    a[IF key = "account" THEN 4 ELSE 5] # PyNone} |->
             a[IF k = "account" THEN 4 ELSE 5]]
    ELSE ("periodicity" :> a[4])

\* C21: each accounting report operation calls execute_report exactly once
\* with its fixed report name and a filter record holding company, from_date
\* and to_date; an optional filter the caller gives no value for is sent at
\* its default (periodicity "Monthly", filter_based_on "Date Range"; for
\* General Ledger group_by, account, party_type and party all ""), also when
\* the get_general_ledger tool is invoked without account and party; filters
\* the caller supplies override the defaults.
C21_ReportFiltersCarryDefaults ==
    (tool \in ToolsOfKind("report") /\ initialized) =>
        calls = <<[prim |-> "execute_report",
                   report_name |-> StatedReportName(tool),
                   filters |-> DictArg(StatedSupplied(tool, args) @@
                                       StatedDefaults(tool) @@
                                       ("company" :> args[1]) @@
                                       ("from_date" :> args[2]) @@
                                       ("to_date" :> args[3]))]>>

-----------------------------------------------------------------------------
(* Claims about get_doctype_for_operation (checked under SpecLookup) *)

\* C22: get_doctype_for_operation returns the DocumentType registered for
\* the operation name for every name of the business-operation table, and
\* raises ValueError, returning no DocumentType, for every other name.
C22_LookupReturnsOrRaises ==
    lookup.tag # "none" =>
        /\ operation \in DOMAIN BUSINESS_OPERATIONS =>
               lookup = [tag |-> "return", value |-> BUSINESS_OPERATIONS[operation]]
        /\ operation \notin DOMAIN BUSINESS_OPERATIONS =>
               /\ lookup.tag = "raise"
               /\ lookup.exc.cls = "ValueError"
        /\ operation = "create_sales_invoice" => lookup.value = "Sales Invoice"
        /\ operation = "create_purchase_order" => lookup.value = "Purchase Order"
        /\ operation = "create_customer" => lookup.value = "Customer"

\* a tool name the table does not register was looked up
C22_Witness ==
    /\ operation = "approve_sales_invoice"
    /\ lookup.tag = "raise"
    /\ lookup.exc.message = <<"Unsupported operation: ", "approve_sales_invoice">>

-----------------------------------------------------------------------------
(* Claims about the registered tools (checked under Spec) *)

\* the call failed because the domain object has no operation of that name
OperationMissing ==
    /\ fault.tag = "raise"
    /\ fault.exc.cls = "AttributeError"
    /\ fault.exc.message[2] \in {DomainClasses[d] : d \in DOMAIN DomainClasses}
    /\ fault.exc.message[4] = ServerTools[tool].op

\* C23: every registered tool delegates to a Domain Operation that its
\* domain object defines, so once the server is initialized no tool call
\* fails merely because the operation it names does not exist; this includes
\* create_purchase_return, submit_purchase_receipt and
\* get_purchase_receipts_list.
C23_EveryToolOperationDefined ==
    (tool # "none" /\ initialized) => ~OperationMissing

-----------------------------------------------------------------------------
(* Claims about the error envelope at the tool boundary (SpecDouble) *)

\* C24: the error envelope a tool returns carries the raised error's own
\* identity: for an ERPNextError or a subclass, the envelope's error_code,
\* message and details are the error's (AUTHENTICATION_ERROR,
\* VALIDATION_ERROR, NOT_FOUND_ERROR, PERMISSION_ERROR or ERPNEXT_ERROR); for
\* any other exception the envelope has error_code ERPNEXT_ERROR, the message
\* "Operation failed: " followed by the exception's text, and empty details.
C24_EnvelopeCarriesIdentity ==
    (tool # "none" /\ fault.tag = "raise") =>
        /\ response.tag = "return"
        /\ response.value.success = FALSE
        /\ IF fault.exc.cls \in ERPNextErrorClasses
           THEN /\ response.value.error_code = StatedCode(fault.exc.cls)
                /\ response.value.error_code = fault.exc.error_code
                /\ response.value.message = fault.exc.message
                /\ response.value.details = fault.exc.details
           ELSE /\ response.value.error_code = "ERPNEXT_ERROR"
                /\ response.value.message =
                       <<"Operation failed: ">> \o fault.exc.message
                /\ response.value.details = EmptyDict

\* the trial balance over a double raising Exception("permission")
C24_Witness ==
    /\ tool = "get_trial_balance"
    /\ fault.tag = "raise"
    /\ fault.exc.cls = "Exception"
    /\ response.value.message = <<"Operation failed: ", "permission">>
    /\ response.value.error_code = "ERPNEXT_ERROR"
    /\ response.value.details = EmptyDict

-----------------------------------------------------------------------------
(* Claims about the multi-step operations (checked under Spec) *)

MultiStepTools ==
    {"convert_lead_to_customer", "convert_lead_to_opportunity", "transfer_asset"}

\* the remote steps each multi-step operation is stated to run, in order
StatedSteps ==
    [convert_lead_to_customer |->
         <<[prim |-> "get_document", doctype |-> "Lead"],
           [prim |-> "create_document", doctype |-> "Customer"],
           [prim |-> "update_document", doctype |-> "Lead"]>>,
     convert_lead_to_opportunity |->
         <<[prim |-> "create_document", doctype |-> "Opportunity"],
           [prim |-> "update_document", doctype |-> "Lead"]>>,
     transfer_asset |->
         <<[prim |-> "create_document", doctype |-> "Asset Movement"],
           [prim |-> "submit_document", doctype |-> "Asset Movement"]>>]

\* C25: the multi-step operations run their remote steps in a fixed order
\* and stop at the first failure: convert_lead_to_customer fetches the lead,
\* creates the customer, then sets the lead's status; convert_lead_to_opportunity
\* creates the opportunity, then sets the lead's status; transfer_asset
\* creates the asset movement, then submits it. The steps an invocation
\* issued are the first steps of that order, starting with the first; a
\* success envelope is returned only when all of them were issued.
C25_StepsInOrderUntilFailure ==
    (initialized /\ tool \in MultiStepTools) =>
        /\ calls # <<>>
        /\ Len(calls) <= Len(StatedSteps[tool])
        /\ \A i \in 1..Len(calls) :
               /\ calls[i].prim = StatedSteps[tool][i].prim
               /\ calls[i].doctype = StatedSteps[tool][i].doctype
        /\ response.value.success => Len(calls) = Len(StatedSteps[tool])

-----------------------------------------------------------------------------
(* Claims about bulk_update_documents (checked under Spec) *)

\* bulk_update_documents ran on an initialized server and the list succeeded
BulkUpdateListed ==
    /\ initialized
    /\ tool = "bulk_update_documents"
    /\ transport[1].ok

\* C27: bulk_update_documents lists the matching documents once and then
\* attempts an update of each listed document exactly once, continuing after
\* a failed update; in its result total_found is the number of listed
\* documents and updated_count the number of documents whose update
\* succeeded, between 0 and total_found, the counted documents carrying the
\* update_fields values.
C27_BulkUpdateAttemptsEachDocument ==
    BulkUpdateListed =>
        LET docs == transport[1].value
            result == response.value.data
        IN  /\ Len(calls) = 1 + Len(docs)
            /\ calls[1].prim = "get_list"
            /\ \A i \in 2..Len(calls) : calls[i].prim = "update_document"
            /\ result.total_found = Len(docs)
            /\ result.updated_count \in 0..result.total_found
            /\ result.update_fields = args[3]

-----------------------------------------------------------------------------
(* Claims about the optional date arguments (checked under Spec) *)

\* the position of the date argument the tool's signature defaults to None
OptionalDateArg ==
    [create_sales_invoice |-> 3, create_purchase_invoice |-> 3,
     create_sales_order |-> 3, create_purchase_order |-> 3]

\* the tool was called with its date left at None and its party and items given
DateLeftOut ==
    /\ initialized
    /\ tool \in DOMAIN OptionalDateArg
    /\ args[OptionalDateArg[tool]] = PyNone
    /\ args[1] # PyNone
    /\ args[2] # PyNone

\* C28: the date arguments declared optional are optional in effect:
\* create_sales_invoice and create_purchase_invoice without posting_date,
\* create_sales_order without delivery_date and create_purchase_order without
\* schedule_date, the other required arguments given, pass local validation
\* and dispatch exactly one create call to the Remote Client.
C28_OptionalDatesAreOptional ==
    DateLeftOut =>
        /\ ~(fault.tag = "raise" /\ fault.exc.cls = "ValidationError")
        /\ Len(calls) = 1
        /\ calls[1].prim = "create_document"

-----------------------------------------------------------------------------
(* Claims about the named arguments of the operations (checked under Spec) *)

\* the record the operation built for the create primitive
BuiltRecord(t) ==
    /\ initialized
    /\ tool = t
    /\ step = "mapped_validated"

Carries(key, value) == key \in DOMAIN data /\ data[key] = value

\* C29: a Domain Operation's own named arguments reach the remote record
\* under the field names of its signature: the record create_salary_slip and
\* create_service_level_agreement build for the create primitive holds the
\* caller's start_date and end_date under the keys start_date and end_date,
\* and the record create_bom builds holds quantity under the key quantity.
C29_NamedArgumentsKeepTheirNames ==
    /\ BuiltRecord("create_salary_slip") =>
           Carries("start_date", args[2]) /\ Carries("end_date", args[3])
    /\ BuiltRecord("create_service_level_agreement") =>
           Carries("start_date", args[3]) /\ Carries("end_date", args[4])
    /\ BuiltRecord("create_bom") => Carries("quantity", args[3])

-----------------------------------------------------------------------------
(* Claims about the configuration of the Remote Client (checked under Spec) *)

\* C30: the Remote Client built at process start takes its connection
\* parameters from configuration: ERPNextClient constructed without an
\* explicit verify_ssl argument, as initialize_client constructs it, has the
\* configured verify_ssl value as its SSL verification flag, whether that
\* value is true or false.
C30_ClientTakesConfiguredVerifySsl ==
    initialized => client.verify_ssl = config.verify_ssl

=============================================================================
